---- MODULE Spec2Model ----
(***************************************************************************)
(* Verification model of the Questicle scripting language core:            *)
(*   - the comment-preserving token formatter (src/src/formatter.rs)       *)
(*   - the tree-walking interpreter and its scope frames                   *)
(*     (src/src/eval.rs, src/src/env.rs, src/src/value.rs)                 *)
(* Source text is a sequence of one-character strings. Runtime numbers     *)
(* (f64 in the source) are modelled by integers; the programs of the model *)
(* use only small whole numbers, on which f64 arithmetic is exact.         *)
(***************************************************************************)
EXTENDS Integers, Sequences, FiniteSets, TLC

\* ------------------------------------------------------------------------
\* Bounds of the model
\* ------------------------------------------------------------------------
\* longest source text, counted in lexical fragments (see Pieces)
MaxPieces == 4
\* largest max_blank_lines option explored (0..MaxBlankOpt)
MaxBlankOpt == 1
\* longest generated statement sequence (see Bodies)
MaxBody == 2
\* number of eval calls made on one interpreter
MaxEvals == 2
\* size of the frame arena
MaxFrames == 12
\* longest run of free words after `let NAME` or `{` (see Tails)
MaxTail == 2
\* longest multi-line source text, counted in fragments (see LexPieces)
MaxLexPieces == 3
\* deepest nesting of list and map types (see TypesUpTo)
MaxTypeDepth == 2
\* number of handlers registered with one host
MaxHandlers == 3
\* largest number literal of the texts that are run (see take_number)
MaxNumber == 9
\* most elements of a list or map literal (see AggregateTexts)
MaxItems == 3

\* ------------------------------------------------------------------------
\* Generic sequence helpers (Rust String / Vec primitives)
\* ------------------------------------------------------------------------
NL == "\n"

Max2(a, b) == IF a > b THEN a ELSE b
Min2(a, b) == IF a < b THEN a ELSE b

\* String::ends_with(char)
EndsWith(out, c) == Len(out) > 0 /\ out[Len(out)] = c

\* String::pop
Pop(out) == SubSeq(out, 1, Len(out) - 1)

\* while out.ends_with(c) { out.pop(); }
RECURSIVE TrimTrailing(_, _)
TrimTrailing(out, c) ==
    IF EndsWith(out, c) THEN TrimTrailing(Pop(out), c) ELSE out

\* str::contains('\n')
HasNewline(text) == \E i \in 1..Len(text) : text[i] = NL

\* s[i..].starts_with(ab), 1-based i
StartsWith2(s, i, a, b) == i + 1 <= Len(s) /\ s[i] = a /\ s[i + 1] = b

\* ------------------------------------------------------------------------
\* Formatter: tokenizer
\* ------------------------------------------------------------------------
Letters ==
    {"a","b","c","d","e","f","g","h","i","j","k","l","m","n","o","p","q",
     "r","s","t","u","v","w","x","y","z",
     "A","B","C","D","E","F","G","H","I","J","K","L","M","N","O","P","Q",
     "R","S","T","U","V","W","X","Y","Z"}
Digits == {"0","1","2","3","4","5","6","7","8","9"}

is_ident_start(c) == c \in Letters \/ c = "_"
is_ident_continue(c) == c \in Letters \/ c \in Digits \/ c = "_"

Keywords ==
    { <<"l","e","t">>, <<"f","n">>, <<"i","f">>, <<"e","l","s","e">>,
      <<"w","h","i","l","e">>, <<"f","o","r">>, <<"i","n">>,
      <<"r","e","t","u","r","n">>, <<"t","r","u","e">>,
      <<"f","a","l","s","e">>, <<"n","u","l","l">>,
      <<"b","r","e","a","k">>, <<"c","o","n","t","i","n","u","e">> }

TwoCharOps ==
    { <<"<","=">>, <<">","=">>, <<"=","=">>, <<"!","=">>, <<"&","&">>,
      <<"|","|">>, <<"-",">">> }

OneCharOps == {"+", "-", "*", "/", "%", "!", "?", "<", ">"}

\* TKind: a tag and, for the variants that carry one, the token's text
Tok(kind, text) == [kind |-> kind, text |-> text]
NoTok == Tok("None", <<>>)

\* structural one-character tokens
PunctKind(c) ==
    CASE c = "(" -> "LParen"
      [] c = ")" -> "RParen"
      [] c = "{" -> "LBrace"
      [] c = "}" -> "RBrace"
      [] c = "[" -> "LBracket"
      [] c = "]" -> "RBracket"
      [] c = "," -> "Comma"
      [] c = "." -> "Dot"
      [] c = ";" -> "Semicolon"
      [] c = ":" -> "Colon"
      [] OTHER -> "None"

\* end of a line comment: first index at or after j holding a newline
RECURSIVE ScanLineComment(_, _)
ScanLineComment(s, j) ==
    IF j <= Len(s) /\ s[j] # NL THEN ScanLineComment(s, j + 1) ELSE j

\* end of a block comment: `while i + 1 < len`, so the last character of the
\* source is never looked at by this loop
RECURSIVE ScanBlockComment(_, _)
ScanBlockComment(s, j) ==
    IF j < Len(s)
    THEN IF StartsWith2(s, j, "*", "/") THEN j + 2
         ELSE ScanBlockComment(s, j + 1)
    ELSE j

\* end of a string literal (index after the closing quote, or past the end)
RECURSIVE ScanStr(_, _, _)
ScanStr(s, j, escaped) ==
    IF j > Len(s) THEN j
    ELSE IF escaped THEN ScanStr(s, j + 1, FALSE)
    ELSE IF s[j] = "\\" THEN ScanStr(s, j + 1, TRUE)
    ELSE IF s[j] = "\"" THEN j + 1
    ELSE ScanStr(s, j + 1, FALSE)

RECURSIVE ScanIdent(_, _)
ScanIdent(s, j) ==
    IF j <= Len(s) /\ is_ident_continue(s[j]) THEN ScanIdent(s, j + 1) ELSE j

RECURSIVE ScanNumber(_, _)
ScanNumber(s, j) ==
    IF j <= Len(s) /\ (s[j] \in Digits \/ s[j] = ".")
    THEN ScanNumber(s, j + 1) ELSE j

\* one pass through the body of the tokenizer loop at (1-based) position i:
\* the token pushed (NoTok when the character is skipped) and the next position
LexOne(s, i) ==
    LET c == s[i]
        Step(tok, next) == [tok |-> tok, next |-> next]
    IN CASE c = NL -> Step(Tok("Newline", <<>>), i + 1)
         [] c \in {" ", "\t", "\r", "\f"} -> Step(NoTok, i + 1)
         [] OTHER ->
         CASE StartsWith2(s, i, "/", "/") ->
              LET j == ScanLineComment(s, i + 2)
              IN Step(Tok("LineComment", SubSeq(s, i, j - 1)), j)
           [] StartsWith2(s, i, "/", "*") ->
              LET j == ScanBlockComment(s, i + 2)
              IN Step(Tok("BlockComment", SubSeq(s, i, Min2(j - 1, Len(s)))), j)
           [] OTHER ->
           CASE c = "\"" ->
                LET j == ScanStr(s, i + 1, FALSE)
                IN Step(Tok("Str", SubSeq(s, i, j - 1)), j)
             [] c # "\"" /\ i + 1 <= Len(s) /\ <<c, s[i + 1]>> \in TwoCharOps ->
                Step(Tok("Op", <<c, s[i + 1]>>), i + 2)
             [] OTHER ->
             CASE PunctKind(c) # "None" -> Step(Tok(PunctKind(c), <<>>), i + 1)
               [] c = "=" -> Step(Tok("Assign", <<>>), i + 1)
               [] c \in OneCharOps -> Step(Tok("Op", <<c>>), i + 1)
               [] is_ident_start(c) ->
                  LET j == ScanIdent(s, i + 1)
                      ident == SubSeq(s, i, j - 1)
                  IN Step(Tok(IF ident \in Keywords THEN "Keyword"
                              ELSE "Ident", ident), j)
               [] c \in Digits ->
                  LET j == ScanNumber(s, i + 1)
                  IN Step(Tok("Number", SubSeq(s, i, j - 1)), j)
               [] OTHER -> Step(Tok("Ident", <<c>>), i + 1)

\* the tokenizer loop, from position i with the tokens v so far
RECURSIVE TokenizeFrom(_, _, _)
TokenizeFrom(s, i, v) ==
    IF i > Len(s) THEN v
    ELSE LET r == LexOne(s, i)
         IN TokenizeFrom(s, r.next, IF r.tok = NoTok THEN v
                                    ELSE Append(v, r.tok))

tokenize(s) == TokenizeFrom(s, 1, <<>>)

\* ------------------------------------------------------------------------
\* Formatter: renderer
\* ------------------------------------------------------------------------
\* FormatterOptions
Opts(indent_size, max_blank_lines) ==
    [indent_size |-> indent_size, max_blank_lines |-> max_blank_lines]
DefaultOptions == Opts(2, 2)

Spaces(n) == [i \in 1..n |-> " "]

write_indent(out, indent, indent_size) ==
    out \o Spaces(Max2(indent, 0) * indent_size)

\* the local variables of render before the first token
RenderInit ==
    [out |-> <<>>, indent |-> 0, need_indent |-> TRUE, blanks |-> 0,
     prev_was_token |-> FALSE, prev_kind |-> NoTok,
     brace_inline_stack |-> <<>>, bracket_depth |-> 0, generic_depth |-> 0,
     in_fn_signature |-> FALSE]

\* it.peek()
Peek(rest) == IF rest = <<>> THEN NoTok ELSE rest[1]

\* if need_indent { write_indent(..) }
Indented(st, o) ==
    IF st.need_indent THEN write_indent(st.out, st.indent, o.indent_size)
    ELSE st.out

\* if !out.ends_with(' ') && !out.ends_with('\n') { out.push(' ') }
SpaceUnlessBreak(out) ==
    IF ~EndsWith(out, " ") /\ ~EndsWith(out, NL) THEN Append(out, " ") ELSE out

\* the previous token kinds after which a word or operator is set off by a space
ValueEndKinds == {"Ident", "Number", "Str", "RParen", "RBracket", "RBrace"}

ArmNewline(st) ==
    [st EXCEPT !.out = Append(TrimTrailing(st.out, " "), NL),
               !.need_indent = TRUE,
               !.prev_was_token = FALSE,
               !.blanks = st.blanks + 1]

ArmLineComment(st, tok, o) ==
    LET o1 == Indented(st, o)
        o2 == IF st.prev_was_token /\ ~EndsWith(o1, " ")
              THEN Append(o1, " ") ELSE o1
    IN [st EXCEPT !.out = o2 \o tok.text,
                  !.need_indent = FALSE,
                  !.prev_was_token = FALSE,
                  !.blanks = 0]

\* text.split('\n') written back line by line: every newline of the comment
\* is followed by the current indentation
RECURSIVE PushCommentLines(_, _, _, _, _)
PushCommentLines(out, text, k, indent, indent_size) ==
    IF k > Len(text) THEN out
    ELSE IF text[k] = NL
    THEN PushCommentLines(write_indent(Append(out, NL), indent, indent_size),
                          text, k + 1, indent, indent_size)
    ELSE PushCommentLines(Append(out, text[k]), text, k + 1, indent,
                          indent_size)

ArmBlockComment(st, tok, rest, o) ==
    LET o1 == Indented(st, o)
        has_newline == HasNewline(tok.text)
        next == Peek(rest)
    IN IF has_newline
       THEN LET o2 == PushCommentLines(o1, tok.text, 1, st.indent,
                                       o.indent_size)
                newline_follows == next.kind = "Newline"
            IN IF ~newline_follows
               THEN [st EXCEPT
                       !.out = IF ~EndsWith(o2, NL) THEN Append(o2, NL) ELSE o2,
                       !.need_indent = TRUE,
                       !.prev_was_token = FALSE,
                       !.blanks = 1]
               ELSE [st EXCEPT !.out = o2,
                               !.need_indent = TRUE,
                               !.prev_was_token = FALSE,
                               !.blanks = 0]
       ELSE LET o2 == o1 \o tok.text
                needs_space ==
                    next.kind \in {"Ident", "Number", "Str", "Keyword"}
            IN [st EXCEPT
                  !.out = IF needs_space /\ ~EndsWith(o2, " ")
                             /\ ~EndsWith(o2, NL)
                          THEN Append(o2, " ") ELSE o2,
                  !.need_indent = FALSE,
                  !.prev_was_token = TRUE,
                  !.blanks = 0]

\* a close brace that dedents without the clamp at 0
ArmRBraceUnclamped(st, rest, o) ==
    LET stack == st.brace_inline_stack
        inline == IF stack = <<>> THEN FALSE ELSE stack[Len(stack)]
        popped == IF stack = <<>> THEN stack ELSE Pop(stack)
        next == Peek(rest)
    IN IF inline
       THEN LET o1 == IF ~EndsWith(st.out, " ") /\ ~EndsWith(st.out, "{")
                         /\ ~EndsWith(st.out, NL)
                      THEN Append(st.out, " ") ELSE st.out
            IN [st EXCEPT !.out = Append(o1, "}"),
                          !.brace_inline_stack = popped,
                          !.need_indent = FALSE,
                          !.prev_was_token = TRUE,
                          !.blanks = 0]
       ELSE LET o1 == IF st.need_indent THEN st.out
                      ELSE LET o0 == IF st.prev_kind.kind = "RBrace"
                                        /\ ~EndsWith(st.out, ";")
                                     THEN Append(st.out, ";") ELSE st.out
                           IN Append(o0, NL)
                ind == st.indent - 1
                o2 == Append(write_indent(o1, ind, o.indent_size), "}")
                stay == next.kind \in {"Semicolon", "Newline"}
            IN [st EXCEPT !.out = IF stay THEN o2 ELSE Append(o2, NL),
                          !.brace_inline_stack = popped,
                          !.indent = ind,
                          !.need_indent = ~stay,
                          !.prev_was_token = stay,
                          !.blanks = IF stay THEN 0 ELSE 1]

\* the RBrace arm: close an inline literal, or dedent and close a block
ArmRBrace(st, rest, o) ==
    LET stack == st.brace_inline_stack
        inline == IF stack = <<>> THEN FALSE ELSE stack[Len(stack)]
        popped == IF stack = <<>> THEN stack ELSE Pop(stack)
        next == Peek(rest)
    IN IF inline
       THEN LET o1 == IF ~EndsWith(st.out, " ") /\ ~EndsWith(st.out, "{")
                         /\ ~EndsWith(st.out, NL)
                      THEN Append(st.out, " ") ELSE st.out
            IN [st EXCEPT !.out = Append(o1, "}"),
                          !.brace_inline_stack = popped,
                          !.need_indent = FALSE,
                          !.prev_was_token = TRUE,
                          !.blanks = 0]
       ELSE LET o1 == IF st.need_indent THEN st.out
                      ELSE LET o0 == IF st.prev_kind.kind = "RBrace"
                                        /\ ~EndsWith(st.out, ";")
                                     THEN Append(st.out, ";") ELSE st.out
                           IN Append(o0, NL)
                ind == Max2(st.indent - 1, 0)
                o2 == Append(write_indent(o1, ind, o.indent_size), "}")
                stay == next.kind \in {"Semicolon", "Newline"}
            IN [st EXCEPT !.out = IF stay THEN o2 ELSE Append(o2, NL),
                          !.brace_inline_stack = popped,
                          !.indent = ind,
                          !.need_indent = ~stay,
                          !.prev_was_token = stay,
                          !.blanks = IF stay THEN 0 ELSE 1]

\* the lookahead of the LBrace arm: is there a single-line block comment
\* before the matching close brace
RECURSIVE HasInlineBlockCommentInside(_, _, _)
HasInlineBlockCommentInside(look, k, depth) ==
    IF k > Len(look) THEN FALSE
    ELSE LET n == look[k] IN
      IF n.kind = "LBrace"
      THEN HasInlineBlockCommentInside(look, k + 1, depth + 1)
      ELSE IF n.kind = "RBrace"
      THEN IF depth - 1 = 0 THEN FALSE
           ELSE HasInlineBlockCommentInside(look, k + 1, depth - 1)
      ELSE IF n.kind = "BlockComment" /\ ~HasNewline(n.text) THEN TRUE
      ELSE HasInlineBlockCommentInside(look, k + 1, depth)

IsBlockContext(st) ==
    \/ st.prev_kind.kind = "RParen"
    \/ /\ st.prev_kind.kind = "Keyword"
       /\ st.prev_kind.text \in { <<"i","f">>, <<"e","l","s","e">>,
                                  <<"w","h","i","l","e">>, <<"f","o","r">>,
                                  <<"f","n">> }
    \/ st.in_fn_signature

ArmLBrace(st, rest, o) ==
    LET o1 == Indented(st, o)
        o2 == IF ~EndsWith(o1, " ") /\ ~EndsWith(o1, NL) /\ ~EndsWith(o1, "{")
                 /\ ~EndsWith(o1, "(")
              THEN Append(o1, " ") ELSE o1
        newline_immediately_follows == Peek(rest).kind = "Newline"
    IN IF IsBlockContext(st)
       THEN [st EXCEPT
               !.out = IF ~newline_immediately_follows
                       THEN Append(Append(o2, "{"), NL) ELSE Append(o2, "{"),
               !.indent = st.indent + 1,
               !.need_indent = TRUE,
               !.prev_was_token = FALSE,
               !.blanks = 1,
               !.brace_inline_stack = Append(st.brace_inline_stack, FALSE),
               !.in_fn_signature = FALSE]
       ELSE IF HasInlineBlockCommentInside(rest, 1, 1)
               \/ newline_immediately_follows
       THEN [st EXCEPT
               !.out = IF ~newline_immediately_follows
                       THEN Append(Append(o2, "{"), NL) ELSE Append(o2, "{"),
               !.indent = st.indent + 1,
               !.need_indent = ~newline_immediately_follows,
               !.prev_was_token = TRUE,
               !.blanks = IF ~newline_immediately_follows THEN 1
                          ELSE st.blanks,
               !.brace_inline_stack = Append(st.brace_inline_stack, FALSE)]
       ELSE [st EXCEPT
               !.out = Append(Append(o2, "{"), " "),
               !.need_indent = FALSE,
               !.prev_was_token = TRUE,
               !.blanks = 0,
               !.brace_inline_stack = Append(st.brace_inline_stack, TRUE)]

ArmSemicolon(st, rest) ==
    LET o1 == Append(st.out, ";")
        next == Peek(rest)
        inline_block_comment_follows ==
            next.kind = "BlockComment" /\ ~HasNewline(next.text)
        inline_line_comment_follows == next.kind = "LineComment"
        else_follows ==
            next.kind = "Keyword" /\ next.text = <<"e","l","s","e">>
        newline_follows == next.kind = "Newline"
    IN IF inline_block_comment_follows \/ inline_line_comment_follows
          \/ else_follows
       THEN [st EXCEPT !.out = Append(o1, " "),
                       !.need_indent = FALSE,
                       !.prev_was_token = TRUE,
                       !.blanks = 0]
       ELSE IF ~newline_follows
       THEN [st EXCEPT !.out = Append(o1, NL),
                       !.need_indent = TRUE,
                       !.prev_was_token = FALSE,
                       !.blanks = 1]
       ELSE [st EXCEPT !.out = o1]

ArmComma(st) ==
    LET o1 == Append(st.out, ",") IN
    [st EXCEPT !.out = IF st.generic_depth <= 0 THEN Append(o1, " ") ELSE o1,
               !.prev_was_token = TRUE,
               !.blanks = 0,
               !.need_indent = FALSE]

ArmColon(st) ==
    [st EXCEPT !.out = Append(Append(st.out, ":"), " "),
               !.prev_was_token = TRUE,
               !.blanks = 0,
               !.need_indent = FALSE]

ArmLParen(st, o) ==
    LET o1 == Indented(st, o)
        o2 == IF st.prev_kind.kind = "Keyword"
                 /\ st.prev_kind.text \in { <<"i","f">>,
                                            <<"w","h","i","l","e">>,
                                            <<"f","o","r">> }
              THEN Append(o1, " ") ELSE o1
    IN [st EXCEPT !.out = Append(o2, "("),
                  !.prev_was_token = TRUE,
                  !.blanks = 0]

ArmRParen(st) ==
    [st EXCEPT !.out = Append(st.out, ")"),
               !.prev_was_token = TRUE,
               !.blanks = 0,
               !.need_indent = FALSE]

ArmLBracket(st, o) ==
    LET o1 == Indented(st, o)
        o2 == IF st.prev_kind.kind = "Keyword"
                 /\ st.prev_kind.text = <<"i","n">>
              THEN SpaceUnlessBreak(o1) ELSE o1
    IN [st EXCEPT !.out = Append(o2, "["),
                  !.need_indent = FALSE,
                  !.bracket_depth = st.bracket_depth + 1,
                  !.prev_was_token = TRUE,
                  !.blanks = 0]

ArmRBracket(st) ==
    [st EXCEPT !.out = Append(st.out, "]"),
               !.bracket_depth = Max2(st.bracket_depth - 1, 0),
               !.prev_was_token = TRUE,
               !.blanks = 0,
               !.need_indent = FALSE]

ArmDot(st) ==
    [st EXCEPT !.out = Append(st.out, "."),
               !.prev_was_token = TRUE,
               !.blanks = 0,
               !.need_indent = FALSE]

ArmAssign(st, o) ==
    LET o1 == Indented(st, o)
        o2 == IF st.prev_kind.kind \in ValueEndKinds \cup {"Op"}
              THEN SpaceUnlessBreak(o1) ELSE o1
    IN [st EXCEPT !.out = Append(Append(o2, "="), " "),
                  !.need_indent = FALSE,
                  !.prev_was_token = TRUE,
                  !.blanks = 0]

ArmOp(st, tok, o) ==
    LET o1 == Indented(st, o)
        is_generic_open ==
            /\ tok.text = <<"<">>
            /\ st.prev_kind.kind = "Ident"
            /\ st.prev_kind.text \in { <<"l","i","s","t">>, <<"m","a","p">> }
        is_generic_close == tok.text = <<">">> /\ st.generic_depth > 0
        o2 == IF ~(is_generic_open \/ is_generic_close)
                 /\ st.prev_kind.kind \in ValueEndKinds
              THEN SpaceUnlessBreak(o1) ELSE o1
    IN IF is_generic_open
       THEN [st EXCEPT !.out = Append(o2, "<"),
                       !.generic_depth = st.generic_depth + 1,
                       !.need_indent = FALSE,
                       !.prev_was_token = TRUE,
                       !.blanks = 0]
       ELSE IF is_generic_close
       THEN [st EXCEPT !.out = Append(o2, ">"),
                       !.generic_depth = st.generic_depth - 1,
                       !.need_indent = FALSE,
                       !.prev_was_token = TRUE,
                       !.blanks = 0]
       ELSE [st EXCEPT !.out = SpaceUnlessBreak(o2 \o tok.text),
                       !.need_indent = FALSE,
                       !.prev_was_token = TRUE,
                       !.blanks = 0]

\* the Ident, Number and Str arms are the same code three times
ArmWord(st, tok, o) ==
    LET o1 == Indented(st, o)
        o2 == IF st.prev_kind.kind \in ValueEndKinds
              THEN SpaceUnlessBreak(o1) ELSE o1
    IN [st EXCEPT !.out = o2 \o tok.text,
                  !.need_indent = FALSE,
                  !.prev_was_token = TRUE,
                  !.blanks = 0]

ArmKeyword(st, tok, rest, o) ==
    LET o1 == Indented(st, o)
        o2 == IF st.prev_kind.kind \in (ValueEndKinds \ {"RBrace"})
              THEN SpaceUnlessBreak(o1) ELSE o1
        o3 == o2 \o tok.text
        next == Peek(rest)
        o4 == IF next.kind \in {"Ident", "Number", "Str", "Keyword", "LBrace"}
              THEN SpaceUnlessBreak(o3) ELSE o3
    IN [st EXCEPT !.out = o4,
                  !.in_fn_signature =
                      IF tok.text = <<"f","n">> THEN TRUE
                      ELSE st.in_fn_signature,
                  !.need_indent = FALSE,
                  !.prev_was_token = TRUE,
                  !.blanks = 0]

\* while blanks > max && out.ends_with('\n') { out.pop(); blanks -= 1 }
RECURSIVE CollapseLoop(_, _, _)
CollapseLoop(out, blanks, max) ==
    IF blanks > max /\ EndsWith(out, NL)
    THEN CollapseLoop(Pop(out), blanks - 1, max)
    ELSE [out |-> out, blanks |-> blanks]

\* a renderer that never collapses blank lines
CollapseNever(st, o) == st

\* collapse blank lines beyond max
Collapse(st, o) ==
    IF st.need_indent /\ st.blanks > o.max_blank_lines
    THEN LET r == CollapseLoop(st.out, st.blanks, o.max_blank_lines)
         IN [st EXCEPT !.out = r.out, !.blanks = r.blanks]
    ELSE st

\* the match on the token kind
Arm(st, tok, rest, o) ==
    CASE tok.kind = "Newline" -> ArmNewline(st)
      [] tok.kind = "LineComment" -> ArmLineComment(st, tok, o)
      [] tok.kind = "BlockComment" -> ArmBlockComment(st, tok, rest, o)
      [] tok.kind = "RBrace" -> ArmRBrace(st, rest, o)
      [] tok.kind = "LBrace" -> ArmLBrace(st, rest, o)
      [] tok.kind = "Semicolon" -> ArmSemicolon(st, rest)
      [] tok.kind = "Comma" -> ArmComma(st)
      [] tok.kind = "Colon" -> ArmColon(st)
      [] tok.kind = "LParen" -> ArmLParen(st, o)
      [] tok.kind = "RParen" -> ArmRParen(st)
      [] tok.kind = "LBracket" -> ArmLBracket(st, o)
      [] tok.kind = "RBracket" -> ArmRBracket(st)
      [] tok.kind = "Dot" -> ArmDot(st)
      [] tok.kind = "Assign" -> ArmAssign(st, o)
      [] tok.kind = "Op" -> ArmOp(st, tok, o)
      [] tok.kind \in {"Ident", "Number", "Str"} -> ArmWord(st, tok, o)
      [] tok.kind = "Keyword" -> ArmKeyword(st, tok, rest, o)

\* one iteration of the render loop: the arm, the collapse, prev_kind
RenderStep(st, tok, rest, o) ==
    [Collapse(Arm(st, tok, rest, o), o) EXCEPT !.prev_kind = tok]

RECURSIVE RenderLoop(_, _, _, _)
RenderLoop(st, toks, k, o) ==
    IF k > Len(toks) THEN st
    ELSE RenderLoop(RenderStep(st, toks[k], SubSeq(toks, k + 1, Len(toks)), o),
                    toks, k + 1, o)

\* trim trailing newlines to a single newline
render(toks, o) ==
    Append(TrimTrailing(RenderLoop(RenderInit, toks, 1, o).out, NL), NL)

format_source_with_options(s, o) == render(tokenize(s), o)

format_source(s) == format_source_with_options(s, DefaultOptions)

\* ------------------------------------------------------------------------
\* Interpreter: values (value.rs), syntax trees (ast.rs), results
\* ------------------------------------------------------------------------
\* Value. Numbers are integers in this model.
NumV(n) == [t |-> "Number", n |-> n]
BoolV(b) == [t |-> "Bool", b |-> b]
NullV == [t |-> "Null"]
ListV(items) == [t |-> "List", items |-> items]
StrV(s) == [t |-> "String", s |-> s]
MapV(m) == [t |-> "Map", m |-> m]
\* Function::User { params, body, env } - env is the handle of a frame
UserFn(params, body, e) ==
    [t |-> "Function", f |-> "User", params |-> params, body |-> body,
     env |-> e]
\* Function::Native { name, fun }
NativeFn(name) == [t |-> "Function", f |-> "Native", name |-> name]

\* Value::truthy
truthy(v) ==
    CASE v.t = "Bool" -> v.b
      [] v.t = "Null" -> FALSE
      [] v.t = "Number" -> v.n # 0
      [] v.t = "String" -> v.s # ""
      [] v.t = "List" -> v.items # <<>>
      [] v.t = "Map" -> DOMAIN v.m # {}
      [] v.t = "Function" -> TRUE

\* Stmt
NoStmt == [k |-> "NoStmt"]
Let(name, init) == [k |-> "Let", name |-> name, init |-> init]
ExprS(e) == [k |-> "Expr", e |-> e]
Block(body) == [k |-> "Block", body |-> body]
If(cond, then, else) ==
    [k |-> "If", cond |-> cond, then_branch |-> then, else_branch |-> else]
While(cond, body) == [k |-> "While", cond |-> cond, body |-> body]
For(name, iter, body) ==
    [k |-> "For", name |-> name, iter |-> iter, body |-> body]
NoExpr == [k |-> "NoExpr"]
Return(e) == [k |-> "Return", e |-> e]
Break == [k |-> "Break"]
Continue == [k |-> "Continue"]

\* Expr
Lit(v) == [k |-> "Literal", v |-> v]
Var(name) == [k |-> "Var", name |-> name]
Assign(name, value) == [k |-> "Assign", name |-> name, value |-> value]
Binary(left, op, right) ==
    [k |-> "Binary", left |-> left, op |-> op, right |-> right]
Call(callee, args) == [k |-> "Call", callee |-> callee, args |-> args]
Fn(params, body) == [k |-> "Fn", params |-> params, body |-> body]
List(items) == [k |-> "List", items |-> items]
Unary(op, e) == [k |-> "Unary", op |-> op, e |-> e]
\* props: the (key, expression) pairs in source order
MapLit(props) == [k |-> "Map", props |-> props]
Index(target, index) == [k |-> "Index", target |-> target, index |-> index]
Field(target, name) == [k |-> "Field", target |-> target, name |-> name]

\* Result<Option<Value>, RuntimeError> of a statement,
\* Result<Value, RuntimeError> of an expression
OkNone == [tag |-> "None"]
OkSome(v) == [tag |-> "Some", val |-> v]
OkVal(v) == [tag |-> "Val", val |-> v]
Err(msg) == [tag |-> "Err", msg |-> msg]
NoResult == [tag |-> "NoResult"]

\* the binary operators on two evaluated operands (add, num2, cmp, eq)
\* Display for Value, of the values that the programs of the model add to
\* a string
ValueText(v) ==
    CASE v.t = "Number" -> ToString(v.n)
      [] v.t = "Bool" -> IF v.b THEN "true" ELSE "false"
      [] v.t = "String" -> "\"" \o v.s \o "\""
      [] v.t = "Null" -> "null"
      [] v.t = "Function" -> "<fn>"

add(l, r) ==
    CASE l.t = "Number" /\ r.t = "Number" -> OkVal(NumV(l.n + r.n))
      [] l.t = "String" /\ r.t = "String" -> OkVal(StrV(l.s \o r.s))
      [] l.t = "String" /\ r.t # "String" -> OkVal(StrV(l.s \o ValueText(r)))
      [] l.t # "String" /\ r.t = "String" -> OkVal(StrV(ValueText(l) \o r.s))
      [] OTHER -> Err("type error for +")

num2(l, r, op) ==
    IF l.t = "Number" /\ r.t = "Number"
    THEN OkVal(NumV(CASE op = "Sub" -> l.n - r.n
                      [] op = "Mul" -> l.n * r.n))
    ELSE Err("number operands required")

cmp(l, r, op) ==
    IF l.t = "Number" /\ r.t = "Number"
    THEN OkVal(BoolV(CASE op = "Lt" -> l.n < r.n
                       [] op = "Le" -> l.n <= r.n
                       [] op = "Gt" -> l.n > r.n
                       [] op = "Ge" -> l.n >= r.n))
    ELSE Err("number operands required")

eq(a, b) ==
    CASE a.t = "Number" /\ b.t = "Number" -> a.n = b.n
      [] a.t = "Bool" /\ b.t = "Bool" -> a.b = b.b
      [] a.t = "String" /\ b.t = "String" -> a.s = b.s
      [] a.t = "Null" /\ b.t = "Null" -> TRUE
      [] OTHER -> FALSE

\* the match on the operator in the Binary arm of eval_expr
BinaryOp(op, l, r) ==
    CASE op = "Add" -> add(l, r)
      [] op \in {"Sub", "Mul"} -> num2(l, r, op)
      [] op = "Eq" -> OkVal(BoolV(eq(l, r)))
      [] op = "Ne" -> OkVal(BoolV(~eq(l, r)))
      [] op \in {"Lt", "Le", "Gt", "Ge"} -> cmp(l, r, op)
      [] op = "And" -> OkVal(BoolV(truthy(l) /\ truthy(r)))
      [] op = "Or" -> OkVal(BoolV(truthy(l) \/ truthy(r)))

\* ------------------------------------------------------------------------
\* Environment (env.rs): an arena of frames; a handle is an index into it,
\* handle 0 stands for "no parent"
\* ------------------------------------------------------------------------
EmptyValues == [n \in {} |-> NullV]

\* Env::new / Env::with_parent
EnvFrame(parent) == [parent |-> parent, values |-> EmptyValues]

\* Env::new_global
GlobalFrame == 1

\* Env::child_of: the arena with a new frame whose parent is the given frame
child_of(fr, parent) == Append(fr, EnvFrame(parent))

\* a define that binds the name in the outermost frame of the chain of h
RECURSIVE define_global(_, _, _, _)
define_global(fr, h, name, value) ==
    IF fr[h].parent # 0 THEN define_global(fr, fr[h].parent, name, value)
    ELSE [fr EXCEPT ![h].values = (name :> value) @@ @]

\* Env::define on frame h
define(fr, h, name, value) ==
    [fr EXCEPT ![h].values = (name :> value) @@ @]

\* Env::get from frame h outward
RECURSIVE get(_, _, _)
get(fr, h, name) ==
    IF name \in DOMAIN fr[h].values THEN OkVal(fr[h].values[name])
    ELSE IF fr[h].parent # 0 THEN get(fr, fr[h].parent, name)
    ELSE OkNone

\* the frame Env::assign writes to, from frame h outward; 0 when none does
RECURSIVE AssignTarget(_, _, _)
AssignTarget(fr, h, name) ==
    IF name \in DOMAIN fr[h].values THEN h
    ELSE IF fr[h].parent # 0 THEN AssignTarget(fr, fr[h].parent, name)
    ELSE 0

\* an assign that binds an unbound name in the active frame
AssignOrDefine(fr, h, name, value) ==
    [ok |-> TRUE,
     frames |-> IF AssignTarget(fr, h, name) # 0
                THEN [fr EXCEPT ![AssignTarget(fr, h, name)].values =
                                    (name :> value) @@ @]
                ELSE define(fr, h, name, value)]

\* Env::assign: Ok with the updated arena, or Err
assign(fr, h, name, value) ==
    LET target == AssignTarget(fr, h, name)
    IN IF target # 0
       THEN [ok |-> TRUE,
             frames |-> [fr EXCEPT ![target].values = (name :> value) @@ @]]
       ELSE [ok |-> FALSE, frames |-> fr]

\* ------------------------------------------------------------------------
\* State
\* ------------------------------------------------------------------------
VARIABLES
    src,    \* formatter: the source text handed to the formatter
    opts,   \* formatter: the FormatterOptions in force
    fpc,    \* formatter: "source", "formatted" (out1 set), "reformatted"
    out1,   \* formatter: format_source_with_options(src, opts)
    out2,   \* formatter: format_source_with_options(out1, opts)
    rst,    \* formatter: the local variables of render, between two tokens
    rpos,   \* formatter: the number of tokens render has processed
    frames, \* interpreter: the arena of Env frames
    env,    \* interpreter: Interpreter.env, the handle of the active frame
    stack,  \* interpreter: the pending calls of exec_* / eval_expr, innermost last
    ctl,    \* interpreter: what the innermost call is about to do or has returned
    prog,   \* interpreter: the Program of the current (or last) eval call
    result, \* interpreter: what the last eval call returned
    evals,  \* interpreter: number of eval calls made on this interpreter
    nat,    \* interpreter: name, arguments and frame handed to the last native call
    source, \* front end: the source text handed to Parser::new / check_program
    tokens, \* front end: the Vec<Token> that lex(source) returned
    ast,    \* front end: what parse_program returned, Ok(Program) or Err(ParseError)
    terrs,  \* front end: the Vec<TypeError> that check_program returned
    tenv,   \* front end: the TypeEnv.vars that check_program returned
    fe,     \* front end: "off", "text", "lexed", "parsed", "checked"
    tys,    \* type checker: the pair of Types handed to is_compatible
    compat, \* type checker: <<>>, or <<b>> once is_compatible has returned b
    events, \* host: Host.events, event name -> handlers in registration order
    calls,  \* host: the handler invocations of the last emit, oldest first
    emitted \* host: <<>>, or <<[name, data, result]>> of the last emit

fvars == <<src, opts, fpc, out1, out2, rst, rpos>>
ivars == <<frames, env, stack, ctl, prog, result, evals, nat>>
pvars == <<source, tokens, ast, terrs, tenv, fe>>
tvars == <<tys, compat>>
hvars == <<events, calls, emitted>>
xvars == <<pvars, tvars, hvars>>
vars == <<src, opts, fpc, out1, out2, rst, rpos, frames, env, stack, ctl, prog, result,
          evals, nat, source, tokens, ast, terrs, tenv, fe,
          tys, compat, events, calls,
          emitted>>

\* ------------------------------------------------------------------------
\* Interpreter: the evaluator as a machine. Each pending Rust call is a
\* record on `stack` holding the locals it still needs.
\* ------------------------------------------------------------------------
\* a pending call: op names the function or match arm, the other fields are
\* its locals (unused ones keep their defaults)
K(op) ==
    [op |-> op, name |-> "", e |-> NoExpr, s |-> NoStmt, s2 |-> NoStmt,
     rest |-> <<>>, saved |-> 0, child |-> 0, v |-> NullV, vs |-> <<>>,
     r |-> NoResult, bop |-> "", at |-> ""]

\* the control register: "idle" (no eval call in progress), "exec" (call
\* exec_stmt on s), "eval" (call eval_expr on e), "ret" (the innermost call
\* returned r), "loop" (the innermost call is at the head of its loop),
\* "call" (call_function on callee v with arguments vs)
C(m) ==
    [m |-> m, s |-> NoStmt, e |-> NoExpr, r |-> NoResult, v |-> NullV,
     vs |-> <<>>]
ExecC(stmt) == [C("exec") EXCEPT !.s = stmt]
EvalC(expr) == [C("eval") EXCEPT !.e = expr]
RetC(res) == [C("ret") EXCEPT !.r = res]
CallC(callee, args) == [C("call") EXCEPT !.v = callee, !.vs = args]

Top == stack[Len(stack)]
Popped == SubSeq(stack, 1, Len(stack) - 1)
Push(k) == Append(stack, k)
ReplaceTop(k) == Append(Popped, k)

\* a statement's result has come back to the innermost call
StmtReturned == ctl.m = "ret" /\ ctl.r.tag \in {"None", "Some"}
\* an expression's value has come back to the innermost call
ValueReturned == ctl.m = "ret" /\ ctl.r.tag = "Val"

\* the frames a value keeps alive (the Rc<RefCell<Env>> it holds)
RECURSIVE ValRefs(_)
ValRefs(v) ==
    CASE v.t = "Function" /\ v.f = "User" -> {v.env}
      [] v.t = "List" -> UNION { ValRefs(v.items[i]) : i \in 1..Len(v.items) }
      [] v.t = "Map" -> UNION { ValRefs(v.m[n]) : n \in DOMAIN v.m }
      [] OTHER -> {}

SeqRefs(vs) == UNION { ValRefs(vs[i]) : i \in 1..Len(vs) }
ResRefs(r) == IF r.tag \in {"Some", "Val"} THEN ValRefs(r.val) ELSE {}

\* is frame h still held by anything but its own bindings and the dropped local
Referenced(h, fr, e, stk, c, res) ==
    \/ h = e
    \/ \E i \in 1..Len(fr) :
          /\ i # h
          /\ \/ fr[i].parent = h
             \/ \E n \in DOMAIN fr[i].values : h \in ValRefs(fr[i].values[n])
    \/ \E i \in 1..Len(stk) :
          \/ stk[i].saved = h
          \/ stk[i].child = h
          \/ h \in ValRefs(stk[i].v) \cup SeqRefs(stk[i].vs)
                    \cup ResRefs(stk[i].r)
    \/ h \in ResRefs(c.r) \cup ValRefs(c.v) \cup SeqRefs(c.vs)
    \/ h \in ResRefs(res)

\* dropping the local Rc `child` when its function returns: the frame is
\* freed when that was the last reference (frames are freed from the end of
\* the arena, so that no handle changes)
DropChild(fr, h, e, stk, c, res) ==
    IF h = Len(fr) /\ ~Referenced(h, fr, e, stk, c, res)
    THEN SubSeq(fr, 1, Len(fr) - 1)
    ELSE fr

\* a step of the evaluator that leaves the bookkeeping of eval calls alone
Step(c, stk, fr, e) ==
    /\ ctl' = c
    /\ stack' = stk
    /\ frames' = fr
    /\ env' = e
    /\ UNCHANGED <<prog, result, evals, nat>>
    /\ UNCHANGED <<fvars, xvars>>

\* a step in which a function returns normally: self.env = saved, the local
\* `child` is dropped
StepReturn(c, stk, saved, child) ==
    Step(c, stk, DropChild(frames, child, saved, stk, c, result), saved)

\* --- Interpreter::eval ----------------------------------------------------
\* the loop of eval: run the next top-level statement, or return Ok(last)
EvalLoop ==
    /\ ctl.m = "loop" /\ Top.op = "eval"
    /\ IF Top.rest = <<>>
       THEN /\ result' = Top.r
            /\ ctl' = C("idle")
            /\ stack' = <<>>
       ELSE /\ result' = result
            /\ ctl' = ExecC(Head(Top.rest))
            /\ stack' = ReplaceTop([Top EXCEPT !.rest = Tail(@)])
    /\ UNCHANGED <<frames, env, prog, evals, nat>>
    /\ UNCHANGED <<fvars, xvars>>

\* an eval that returned at the first top-level statement yielding a value
EvalStmtDoneFirstSome ==
    /\ ctl.m = "ret" /\ ctl.r.tag \in {"None", "Some", "Err"}
    /\ Top.op = "eval"
    /\ IF ctl.r.tag \in {"Err", "Some"}
       THEN /\ result' = ctl.r
            /\ ctl' = C("idle")
            /\ stack' = <<>>
       ELSE /\ result' = result
            /\ ctl' = C("loop")
            /\ stack' = ReplaceTop([Top EXCEPT !.r = ctl.r])
    /\ UNCHANGED <<frames, env, prog, evals, nat>>
    /\ UNCHANGED <<fvars, xvars>>

\* last = self.exec_stmt(&s)?
EvalStmtDone ==
    /\ ctl.m = "ret" /\ ctl.r.tag \in {"None", "Some", "Err"}
    /\ Top.op = "eval"
    /\ IF ctl.r.tag = "Err"
       THEN /\ result' = ctl.r
            /\ ctl' = C("idle")
            /\ stack' = <<>>
       ELSE /\ result' = result
            /\ ctl' = C("loop")
            /\ stack' = ReplaceTop([Top EXCEPT !.r = ctl.r])
    /\ UNCHANGED <<frames, env, prog, evals, nat>>
    /\ UNCHANGED <<fvars, xvars>>

\* the `?` operator: an Err returned to any pending call but eval makes that
\* call return the same Err at once, running none of its remaining code
PropagateErr ==
    /\ ctl.m = "ret" /\ ctl.r.tag = "Err"
    /\ Top.op # "eval"
    /\ Step(ctl, Popped, frames, env)

\* --- exec_stmt -----------------------------------------------------------
ExecLet ==
    /\ ctl.m = "exec" /\ ctl.s.k = "Let"
    /\ Step(EvalC(ctl.s.init), Push([K("let") EXCEPT !.name = ctl.s.name]),
            frames, env)

LetDone ==
    /\ ValueReturned /\ Top.op = "let"
    /\ Step(RetC(OkNone), Popped, define(frames, env, Top.name, ctl.r.val),
            env)

ExecExpr ==
    /\ ctl.m = "exec" /\ ctl.s.k = "Expr"
    /\ Step(EvalC(ctl.s.e), Push(K("exprstmt")), frames, env)

ExprDone ==
    /\ ValueReturned /\ Top.op = "exprstmt"
    /\ Step(RetC(OkSome(ctl.r.val)), Popped, frames, env)

\* exec_block, up to its loop: the child frame becomes the active frame
ExecBlock ==
    /\ ctl.m = "exec" /\ ctl.s.k = "Block"
    /\ Len(frames) < MaxFrames
    /\ Step(C("loop"),
            Push([K("block") EXCEPT !.rest = ctl.s.body, !.saved = env,
                                    !.child = Len(frames) + 1]),
            child_of(frames, env), Len(frames) + 1)

\* a sequence that no statement result ends early
EndsSequenceNever(r) == FALSE

\* if let Some(v) = .. : the statement results that end a statement sequence
EndsSequence(r) == r.tag = "Some"

\* the head of exec_block's loop: the next statement, or the end of the body
BlockLoop ==
    /\ ctl.m = "loop" /\ Top.op = "block"
    /\ IF Top.rest = <<>>
       THEN StepReturn(RetC(OkNone), Popped, Top.saved, Top.child)
       ELSE Step(ExecC(Head(Top.rest)),
                 ReplaceTop([Top EXCEPT !.rest = Tail(@)]), frames, env)

\* if let Some(v) = self.exec_stmt(s)? { result = Some(v); break; }
BlockStmtDone ==
    /\ StmtReturned /\ Top.op = "block"
    /\ IF EndsSequence(ctl.r)
       THEN StepReturn(RetC(ctl.r), Popped, Top.saved, Top.child)
       ELSE Step(C("loop"), stack, frames, env)

ExecIf ==
    /\ ctl.m = "exec" /\ ctl.s.k = "If"
    /\ Step(EvalC(ctl.s.cond),
            Push([K("if") EXCEPT !.s = ctl.s.then_branch,
                                 !.s2 = ctl.s.else_branch]),
            frames, env)

IfCond ==
    /\ ValueReturned /\ Top.op = "if"
    /\ IF truthy(ctl.r.val) THEN Step(ExecC(Top.s), Popped, frames, env)
       ELSE IF Top.s2 # NoStmt THEN Step(ExecC(Top.s2), Popped, frames, env)
       ELSE Step(RetC(OkNone), Popped, frames, env)

ExecWhile ==
    /\ ctl.m = "exec" /\ ctl.s.k = "While"
    /\ Step(EvalC(ctl.s.cond),
            Push([K("while") EXCEPT !.e = ctl.s.cond, !.s = ctl.s.body,
                                    !.at = "cond"]),
            frames, env)

\* while self.eval_expr(cond)?.truthy() { .. } Ok(None)
WhileCond ==
    /\ ValueReturned /\ Top.op = "while" /\ Top.at = "cond"
    /\ IF truthy(ctl.r.val)
       THEN Step(ExecC(Top.s), ReplaceTop([Top EXCEPT !.at = "body"]),
                 frames, env)
       ELSE Step(RetC(OkNone), Popped, frames, env)

\* a loop that goes on to its next condition test whatever the body yielded
WhileBodyIgnoresSome ==
    /\ StmtReturned /\ Top.op = "while" /\ Top.at = "body"
    /\ Step(EvalC(Top.e), ReplaceTop([Top EXCEPT !.at = "cond"]), frames, env)

\* if let Some(v) = self.exec_stmt(body)? { return Ok(Some(v)); }
WhileBody ==
    /\ StmtReturned /\ Top.op = "while" /\ Top.at = "body"
    /\ IF ctl.r.tag = "Some"
       THEN Step(RetC(ctl.r), Popped, frames, env)
       ELSE Step(EvalC(Top.e), ReplaceTop([Top EXCEPT !.at = "cond"]),
                 frames, env)

ExecFor ==
    /\ ctl.m = "exec" /\ ctl.s.k = "For"
    /\ Step(EvalC(ctl.s.iter),
            Push([K("for") EXCEPT !.name = ctl.s.name, !.s = ctl.s.body,
                                  !.at = "iter"]),
            frames, env)

\* match it { Value::List(list) => .., _ => Err("for expects list") }
ForIter ==
    /\ ValueReturned /\ Top.op = "for" /\ Top.at = "iter"
    /\ IF ctl.r.val.t = "List"
       THEN Step(C("loop"),
                 ReplaceTop([Top EXCEPT !.vs = ctl.r.val.items,
                                        !.at = "items"]),
                 frames, env)
       ELSE Step(RetC(Err("for expects list")), Popped, frames, env)

\* the head of the loop over the list: a child frame binding the loop variable
\* becomes the active frame and the body runs, or the loop ends with Ok(None)
ForLoop ==
    /\ ctl.m = "loop" /\ Top.op = "for"
    /\ IF Top.vs = <<>>
       THEN Step(RetC(OkNone), Popped, frames, env)
       ELSE /\ Len(frames) < MaxFrames
            /\ Step(ExecC(Top.s),
                    ReplaceTop([Top EXCEPT !.vs = Tail(@), !.saved = env,
                                           !.child = Len(frames) + 1]),
                    define(child_of(frames, env), Len(frames) + 1, Top.name,
                           Head(Top.vs)),
                    Len(frames) + 1)

\* let r = self.exec_stmt(body)?; self.env = saved; if r.is_some() { return }
ForBody ==
    /\ StmtReturned /\ Top.op = "for" /\ Top.at = "items"
    /\ IF ctl.r.tag = "Some"
       THEN StepReturn(RetC(ctl.r), Popped, Top.saved, Top.child)
       ELSE StepReturn(C("loop"),
                       ReplaceTop([Top EXCEPT !.saved = 0, !.child = 0]),
                       Top.saved, Top.child)

ExecReturn ==
    /\ ctl.m = "exec" /\ ctl.s.k = "Return"
    /\ IF ctl.s.e = NoExpr
       THEN Step(RetC(OkSome(NullV)), stack, frames, env)
       ELSE Step(EvalC(ctl.s.e), Push(K("return")), frames, env)

ReturnDone ==
    /\ ValueReturned /\ Top.op = "return"
    /\ Step(RetC(OkSome(ctl.r.val)), Popped, frames, env)

\* a break or continue that ends the enclosing statement sequence
ExecBreakContinueEnds ==
    /\ ctl.m = "exec" /\ ctl.s.k \in {"Break", "Continue"}
    /\ Step(RetC(OkSome(NullV)), stack, frames, env)

\* Stmt::Break | Stmt::Continue => Ok(None)
ExecBreakContinue ==
    /\ ctl.m = "exec" /\ ctl.s.k \in {"Break", "Continue"}
    /\ Step(RetC(OkNone), stack, frames, env)

\* --- eval_expr -----------------------------------------------------------
EvalLiteral ==
    /\ ctl.m = "eval" /\ ctl.e.k = "Literal"
    /\ Step(RetC(OkVal(ctl.e.v)), stack, frames, env)

\* self.env.borrow().get(name).ok_or_else(|| "Undefined variable ..")?
EvalVar ==
    /\ ctl.m = "eval" /\ ctl.e.k = "Var"
    /\ LET found == get(frames, env, ctl.e.name)
       IN Step(RetC(IF found.tag = "Val" THEN found
                    ELSE Err("Undefined variable")),
               stack, frames, env)

EvalAssign ==
    /\ ctl.m = "eval" /\ ctl.e.k = "Assign"
    /\ Step(EvalC(ctl.e.value), Push([K("assign") EXCEPT !.name = ctl.e.name]),
            frames, env)

\* self.env.borrow_mut().assign(name, v.clone()).map_err(..)?; v
AssignDone ==
    /\ ValueReturned /\ Top.op = "assign"
    /\ LET a == assign(frames, env, Top.name, ctl.r.val)
       IN Step(RetC(IF a.ok THEN ctl.r ELSE Err("Undefined variable")),
               Popped, a.frames, env)

EvalBinary ==
    /\ ctl.m = "eval" /\ ctl.e.k = "Binary"
    /\ Step(EvalC(ctl.e.left),
            Push([K("binary") EXCEPT !.bop = ctl.e.op, !.e = ctl.e.right,
                                     !.at = "left"]),
            frames, env)

\* logical operators that stop at a left operand which decides the result
BinaryLeftShortCircuit ==
    /\ ValueReturned /\ Top.op = "binary" /\ Top.at = "left"
    /\ IF \/ Top.bop = "And" /\ ~truthy(ctl.r.val)
          \/ Top.bop = "Or" /\ truthy(ctl.r.val)
       THEN Step(RetC(OkVal(BoolV(truthy(ctl.r.val)))), Popped, frames, env)
       ELSE Step(EvalC(Top.e),
                 ReplaceTop([Top EXCEPT !.v = ctl.r.val, !.at = "right",
                                        !.e = NoExpr]),
                 frames, env)

\* let l = self.eval_expr(left)?; the right operand is evaluated next
BinaryLeft ==
    /\ ValueReturned /\ Top.op = "binary" /\ Top.at = "left"
    /\ Step(EvalC(Top.e),
            ReplaceTop([Top EXCEPT !.v = ctl.r.val, !.at = "right",
                                   !.e = NoExpr]),
            frames, env)

\* let r = self.eval_expr(right)?; match op { .. }
BinaryRight ==
    /\ ValueReturned /\ Top.op = "binary" /\ Top.at = "right"
    /\ Step(RetC(BinaryOp(Top.bop, Top.v, ctl.r.val)), Popped, frames, env)

EvalCall ==
    /\ ctl.m = "eval" /\ ctl.e.k = "Call"
    /\ Step(EvalC(ctl.e.callee),
            Push([K("callargs") EXCEPT !.rest = ctl.e.args, !.at = "callee"]),
            frames, env)

\* let c = self.eval_expr(callee)?
CalleeDone ==
    /\ ValueReturned /\ Top.op = "callargs" /\ Top.at = "callee"
    /\ Step(C("loop"),
            ReplaceTop([Top EXCEPT !.v = ctl.r.val, !.at = "args"]),
            frames, env)

\* for x in args { a.push(self.eval_expr(x)?) } self.call_function(c, a)?
CallArgsLoop ==
    /\ ctl.m = "loop" /\ Top.op = "callargs"
    /\ IF Top.rest = <<>>
       THEN Step(CallC(Top.v, Top.vs), Popped, frames, env)
       ELSE Step(EvalC(Head(Top.rest)),
                 ReplaceTop([Top EXCEPT !.rest = Tail(@)]), frames, env)

CallArgDone ==
    /\ ValueReturned /\ Top.op = "callargs" /\ Top.at = "args"
    /\ Step(C("loop"),
            ReplaceTop([Top EXCEPT !.vs = Append(@, ctl.r.val)]), frames, env)

\* the value a native function of the standard library returns
NativeResult(name, args) ==
    CASE name = "print" -> OkVal(NullV)
      [] name = "push" ->
             IF Len(args) >= 2 /\ args[1].t = "List"
             THEN OkVal(ListV(Append(args[1].items, args[2])))
             ELSE Err("push expects (list, value)")
      [] name = "host" ->
             IF Len(args) >= 1 /\ args[1].t = "String"
             THEN OkVal(MapV(("ok" :> BoolV(TRUE)) @@ ("op" :> args[1])
                             @@ ("payload" :> IF Len(args) >= 2 THEN args[2]
                                              ELSE NullV)))
             ELSE Err("host(op, payload)")

\* call_function, Function::Native: fun(args, self.env.clone())
CallNative ==
    /\ ctl.m = "call" /\ ctl.v.t = "Function" /\ ctl.v.f = "Native"
    /\ nat' = [name |-> ctl.v.name, args |-> ctl.vs, env |-> env]
    /\ ctl' = RetC(NativeResult(ctl.v.name, ctl.vs))
    /\ UNCHANGED <<frames, env, stack, prog, result, evals>>
    /\ UNCHANGED <<fvars, xvars>>

\* binding the parameters positionally; a missing argument binds Null
RECURSIVE BindParams(_, _, _, _, _)
BindParams(fr, h, params, args, i) ==
    IF i > Len(params) THEN fr
    ELSE BindParams(define(fr, h, params[i],
                           IF i <= Len(args) THEN args[i] ELSE NullV),
                    h, params, args, i + 1)

\* dynamic scoping: a call frame parented at the caller's active frame
CallParentDynamic(callee, active) == active

\* the frame a user function's call frame is parented at: the one captured
\* by the closure
CallParent(callee, active) == callee.env

\* call_function, Function::User, up to the loop over the body
CallUser ==
    /\ ctl.m = "call" /\ ctl.v.t = "Function" /\ ctl.v.f = "User"
    /\ Len(frames) < MaxFrames
    /\ LET child == Len(frames) + 1
       IN Step(C("loop"),
               Push([K("call") EXCEPT !.rest = ctl.v.body, !.saved = env,
                                      !.child = child]),
               BindParams(child_of(frames, CallParent(ctl.v, env)), child,
                          ctl.v.params, ctl.vs, 1),
               child)

\* call_function on a value that is no function
CallNonFunction ==
    /\ ctl.m = "call" /\ ctl.v.t # "Function"
    /\ Step(RetC(Err("attempt to call non-function")), stack, frames, env)

\* the head of call_function's loop over the body; ret stays Null when the
\* body ends without a value
CallBodyLoop ==
    /\ ctl.m = "loop" /\ Top.op = "call"
    /\ IF Top.rest = <<>>
       THEN StepReturn(RetC(OkVal(NullV)), Popped, Top.saved, Top.child)
       ELSE Step(ExecC(Head(Top.rest)),
                 ReplaceTop([Top EXCEPT !.rest = Tail(@)]), frames, env)

\* if let Some(v) = self.exec_stmt(s)? { ret = v; break; }
CallStmtDone ==
    /\ StmtReturned /\ Top.op = "call"
    /\ IF EndsSequence(ctl.r)
       THEN StepReturn(RetC(OkVal(ctl.r.val)), Popped, Top.saved, Top.child)
       ELSE Step(C("loop"), stack, frames, env)

\* capture by value: the closure holds a copy of the active frame
CaptureCopy(fr, active) == [frames |-> Append(fr, fr[active]), env |-> Len(fr) + 1]

\* the frame a function literal captures: the active frame itself
Capture(fr, active) == [frames |-> fr, env |-> active]

\* Expr::Fn: a closure over self.env.clone()
EvalFn ==
    /\ ctl.m = "eval" /\ ctl.e.k = "Fn"
    /\ LET cap == Capture(frames, env)
       IN Step(RetC(OkVal(UserFn(ctl.e.params, ctl.e.body, cap.env))), stack,
               cap.frames, env)

EvalList ==
    /\ ctl.m = "eval" /\ ctl.e.k = "List"
    /\ Step(C("loop"), Push([K("list") EXCEPT !.rest = ctl.e.items]), frames,
            env)

\* for e in items { v.push(self.eval_expr(e)?) } Value::List(v)
ListLoop ==
    /\ ctl.m = "loop" /\ Top.op = "list"
    /\ IF Top.rest = <<>>
       THEN Step(RetC(OkVal(ListV(Top.vs))), Popped, frames, env)
       ELSE Step(EvalC(Head(Top.rest)),
                 ReplaceTop([Top EXCEPT !.rest = Tail(@)]), frames, env)

ListItemDone ==
    /\ ValueReturned /\ Top.op = "list"
    /\ Step(C("loop"), ReplaceTop([Top EXCEPT !.vs = Append(@, ctl.r.val)]),
            frames, env)

EvalMap ==
    /\ ctl.m = "eval" /\ ctl.e.k = "Map"
    /\ Step(C("loop"),
            Push([K("map") EXCEPT !.rest = ctl.e.props,
                                  !.v = MapV(EmptyValues)]),
            frames, env)

\* for (k, e) in props { m.insert(k.clone(), self.eval_expr(e)?) } Value::Map(m)
MapLoop ==
    /\ ctl.m = "loop" /\ Top.op = "map"
    /\ IF Top.rest = <<>>
       THEN Step(RetC(OkVal(Top.v)), Popped, frames, env)
       ELSE Step(EvalC(Head(Top.rest)[2]),
                 ReplaceTop([Top EXCEPT !.rest = Tail(@),
                                        !.name = Head(Top.rest)[1]]),
                 frames, env)

MapItemDone ==
    /\ ValueReturned /\ Top.op = "map"
    /\ Step(C("loop"),
            ReplaceTop([Top EXCEPT !.v = MapV((Top.name :> ctl.r.val) @@ @.m)]),
            frames, env)

\* `n as usize` on a number: the cast saturates, a negative number becomes 0
as_usize(n) == IF n < 0 THEN 0 ELSE n

\* the match on (t, i) in the Index arm of eval_expr
IndexValue(t, i) ==
    CASE t.t = "List" /\ i.t = "Number" ->
             IF as_usize(i.n) < Len(t.items) THEN t.items[as_usize(i.n) + 1]
             ELSE NullV
      [] t.t = "Map" /\ i.t = "String" ->
             IF i.s \in DOMAIN t.m THEN t.m[i.s] ELSE NullV
      [] OTHER -> NullV

EvalIndex ==
    /\ ctl.m = "eval" /\ ctl.e.k = "Index"
    /\ Step(EvalC(ctl.e.target),
            Push([K("index") EXCEPT !.e = ctl.e.index, !.at = "target"]),
            frames, env)

\* let t = self.eval_expr(target)?; the index is evaluated next
IndexTarget ==
    /\ ValueReturned /\ Top.op = "index" /\ Top.at = "target"
    /\ Step(EvalC(Top.e),
            ReplaceTop([Top EXCEPT !.v = ctl.r.val, !.at = "index",
                                   !.e = NoExpr]),
            frames, env)

\* let i = self.eval_expr(index)?; match (t, i) { .. }
IndexDone ==
    /\ ValueReturned /\ Top.op = "index" /\ Top.at = "index"
    /\ Step(RetC(OkVal(IndexValue(Top.v, ctl.r.val))), Popped, frames, env)

\* ------------------------------------------------------------------------
\* Interpreter: the programs of the model
\* ------------------------------------------------------------------------
Num(n) == Lit(NumV(n))
\* x = x + 1
IncX == Assign("x", Binary(Var("x"), "Add", Num(1)))

\* the statements the generated sequences are made of
SLet == Let("t", IncX)                      \* let t = (x = x + 1);
SInc == ExprS(IncX)                         \* x = x + 1;
SLit == ExprS(Num(7))                       \* 7;
SRet == Return(Num(9))                      \* return 9;
SErr == ExprS(Var("u"))                     \* u;   (u is bound nowhere)
SBlk == Block(<<SLet>>)                     \* { let t = (x = x + 1); }
SIf == If(Lit(BoolV(TRUE)), Block(<<ExprS(Num(3))>>), NoStmt) \* if (true) { 3; }
StmtAlphabet == {SLet, SInc, SLit, SRet, Break, Continue, SErr, SBlk, SIf}

Bodies == UNION { [1..n -> StmtAlphabet] : n \in 0..MaxBody }

Program(kind, body, p1, p2, stmts) ==
    [kind |-> kind, body |-> body, p1 |-> p1, p2 |-> p2, stmts |-> stmts]
NoProg == Program("none", <<>>, 0, 0, <<>>)

LetX0 == Let("x", Num(0))

\* a generated sequence as the top-level statements, as a block, as the body
\* of a called function, as the body of a while loop and of a for loop
TopProgram(b) == Program("top", b, 0, 0, <<LetX0>> \o b)
BlockProgram(b) == Program("block", b, 0, 0, <<LetX0, Block(b)>>)
FnProgram(b) ==
    Program("fn", b, 0, 0,
            <<LetX0, Let("f", Fn(<<>>, b)), ExprS(Call(Var("f"), <<>>))>>)
WhileProgram(b) ==
    Program("while", b, 0, 0,
            <<LetX0, While(Binary(Var("x"), "Lt", Num(2)), Block(b))>>)
ForProgram(b) ==
    Program("for", b, 0, 0,
            <<LetX0, For("i", List(<<Num(1), Num(2)>>), Block(b))>>)

\* while (true) { break; }
WhileTrueBreak ==
    Program("while_true_break", <<>>, 0, 0,
            <<While(Lit(BoolV(TRUE)), Block(<<Break>>))>>)
\* for (i in [1,2]) { continue; }
ForContinue ==
    Program("for_continue", <<>>, 0, 0,
            <<For("i", List(<<Num(1), Num(2)>>), Block(<<Continue>>))>>)

XPlus1 == Binary(Var("x"), "Add", Num(1))
\* let x = a; let f = fn() { { x + 1 } }; f();
ClosureProgram(a) ==
    Program("closure", <<>>, a, 0,
            <<Let("x", Num(a)),
              Let("f", Fn(<<>>, <<Block(<<ExprS(XPlus1)>>)>>)),
              ExprS(Call(Var("f"), <<>>))>>)
\* let x = a; let f = fn() { { x + 1 } }; x = b; f();
ClosureMutProgram(a, b) ==
    Program("closure_mut", <<>>, a, b,
            <<Let("x", Num(a)),
              Let("f", Fn(<<>>, <<Block(<<ExprS(XPlus1)>>)>>)),
              ExprS(Assign("x", Num(b))),
              ExprS(Call(Var("f"), <<>>))>>)
\* let mk = fn() { let c = a; fn() { c = c + b } };
\* let inc = mk(); let get = fn() { inc }; inc(); inc();
\* the frame of the call of mk lives on in the closure and is shared by its calls
CounterProgram(a, b) ==
    Program("counter", <<>>, a, b,
            <<Let("mk", Fn(<<>>,
                  <<Let("c", Num(a)),
                    ExprS(Fn(<<>>,
                        <<ExprS(Assign("c", Binary(Var("c"), "Add", Num(b))))>>))
                  >>)),
              Let("inc", Call(Var("mk"), <<>>)),
              ExprS(Call(Var("inc"), <<>>)),
              ExprS(Call(Var("inc"), <<>>))>>)
\* let x = a; let g = fn() { x = b; }; let h = fn() { x }; g(); h();
SharedProgram(a, b) ==
    Program("shared", <<>>, a, b,
            <<Let("x", Num(a)),
              Let("g", Fn(<<>>, <<ExprS(Assign("x", Num(b)))>>)),
              Let("h", Fn(<<>>, <<ExprS(Var("x"))>>)),
              ExprS(Call(Var("g"), <<>>)),
              ExprS(Call(Var("h"), <<>>))>>)
\* let x = a; let f = fn() { x }; let g = fn() { let x = b; f() }; g();
LexicalProgram(a, b) ==
    Program("lexical", <<>>, a, b,
            <<Let("x", Num(a)),
              Let("f", Fn(<<>>, <<ExprS(Var("x"))>>)),
              Let("g", Fn(<<>>, <<Let("x", Num(b)),
                                  ExprS(Call(Var("f"), <<>>))>>)),
              ExprS(Call(Var("g"), <<>>))>>)
\* let f = fn(y) { print(y, a) }; f(b);
NativeProgram(a, b) ==
    Program("native", <<>>, a, b,
            <<Let("f", Fn(<<"y">>,
                  <<ExprS(Call(Var("print"), <<Var("y"), Num(a)>>))>>)),
              ExprS(Call(Var("f"), <<Num(b)>>))>>)
\* 5();
CallNumberProgram ==
    Program("call_number", <<>>, 0, 0, <<ExprS(Call(Num(5), <<>>))>>)
\* for (i in 1) { }
ForNumberProgram ==
    Program("for_number", <<>>, 0, 0, <<For("i", Num(1), Block(<<>>))>>)
\* if (1 < 0) { 1; } else { return; }
IfElseProgram ==
    Program("if_else", <<>>, 0, 0,
            <<If(Binary(Num(1), "Lt", Num(0)), Block(<<ExprS(Num(1))>>),
                 Block(<<Return(NoExpr)>>))>>)

\* let x = a; { let y = a; u = x; }      (u is bound nowhere)
AssignUndefProgram(a) ==
    Program("assign_undef", <<>>, a, 0,
            <<Let("x", Num(a)),
              Block(<<Let("y", Num(a)), ExprS(Assign("u", Var("x")))>>)>>)

\* let x = a; let x = b; { let x = a; x = x + 1; } x;
ShadowProgram(a, b) ==
    Program("shadow", <<>>, a, b,
            <<Let("x", Num(a)), Let("x", Num(b)),
              Block(<<Let("x", Num(a)), ExprS(IncX)>>),
              ExprS(Var("x"))>>)

\* the targets and the indexes of the index expressions of the model:
\* [10, 20]  []  {k: 1}  5  null  "s"    and    0  1  2  0 - 1  "k"  "z"  null  true
IndexTargets ==
    << List(<<Num(10), Num(20)>>), List(<<>>), MapLit(<< <<"k", Num(1)>> >>),
       Num(5), Lit(NullV), Lit(StrV("s")) >>
IndexKeys ==
    << Num(0), Num(1), Num(2), Binary(Num(0), "Sub", Num(1)), Lit(StrV("k")),
       Lit(StrV("z")), Lit(NullV), Lit(BoolV(TRUE)) >>
\* TARGET[INDEX];
IndexProgram(t, i) ==
    Program("index", <<>>, t, i, <<ExprS(Index(IndexTargets[t], IndexKeys[i]))>>)

\* the operands of the logical expressions of the model: the left ones
\*   true  false  0  1     and the right ones    (x = x + 1)   u
LogicLefts == << Lit(BoolV(TRUE)), Lit(BoolV(FALSE)), Num(0), Num(1) >>
LogicRights == << IncX, Var("u") >>
\* let x = 0; LEFT && RIGHT;      let x = 0; LEFT || RIGHT;
LogicProgram(op, l, r) ==
    Program(op, <<>>, l, r,
            <<LetX0, ExprS(Binary(LogicLefts[l], op, LogicRights[r]))>>)

\* the numbers the parameterised programs are instantiated with
ProgramArgs == {1, 10, 41}

Programs ==
    { TopProgram(b) : b \in Bodies } \cup { BlockProgram(b) : b \in Bodies }
    \cup { FnProgram(b) : b \in Bodies } \cup { WhileProgram(b) : b \in Bodies }
    \cup { ForProgram(b) : b \in Bodies }
    \cup { WhileTrueBreak, ForContinue, CallNumberProgram, ForNumberProgram,
           IfElseProgram }
    \cup { ClosureProgram(a) : a \in ProgramArgs }
    \cup { ClosureMutProgram(a, b) : a \in ProgramArgs, b \in ProgramArgs }
    \cup { CounterProgram(a, b) : a \in ProgramArgs, b \in ProgramArgs }
    \cup { SharedProgram(a, b) : a \in ProgramArgs, b \in ProgramArgs }
    \cup { LexicalProgram(a, b) : a \in ProgramArgs, b \in ProgramArgs }
    \cup { NativeProgram(a, b) : a \in ProgramArgs, b \in ProgramArgs }
    \cup { AssignUndefProgram(a) : a \in ProgramArgs }
    \cup { ShadowProgram(a, b) : a \in ProgramArgs, b \in ProgramArgs }
    \cup { IndexProgram(t, i) :
               t \in DOMAIN IndexTargets, i \in DOMAIN IndexKeys }
    \cup { LogicProgram(op, l, r) :
               op \in {"And", "Or"}, l \in DOMAIN LogicLefts,
               r \in DOMAIN LogicRights }

\* the lines given to an interpreter that has already run a program:
\*   x;      { u; }
FollowUps ==
    { Program("follow_x", <<>>, 0, 0, <<ExprS(Var("x"))>>),
      Program("follow_err", <<>>, 0, 0, <<Block(<<SErr>>)>>) }

\* ------------------------------------------------------------------------
\* Interpreter: specification
\* ------------------------------------------------------------------------
NoNative == [name |-> "", args |-> <<>>, env |-> 0]

\* Interpreter::with_host: a global frame holding the standard library
InitInterp ==
    /\ frames = <<[parent |-> 0,
                   values |-> ("print" :> NativeFn("print"))]>>
    /\ env = GlobalFrame
    /\ stack = <<>>
    /\ ctl = C("idle")
    /\ prog = NoProg
    /\ result = NoResult
    /\ evals = 0
    /\ nat = NoNative

\* the formatter is not in use
FormatterOff ==
    /\ src = <<>>
    /\ opts = DefaultOptions
    /\ fpc = "off"
    /\ out1 = <<>>
    /\ out2 = <<>>
    /\ rst = RenderInit
    /\ rpos = 0

\* no TypeEnv
NoVars == [n \in {} |-> ""]

\* the front end is not in use
FrontOff ==
    /\ source = <<>>
    /\ tokens = <<>>
    /\ ast = [tag |-> "none"]
    /\ terrs = <<>>
    /\ tenv = NoVars
    /\ fe = "off"

\* no is_compatible question is pending
TypesOff ==
    /\ tys = <<>>
    /\ compat = <<>>

\* Host::new: no handler is registered, nothing was emitted
HostNew ==
    /\ events = [n \in {} |-> <<>>]
    /\ calls = <<>>
    /\ emitted = <<>>

\* a call of Interpreter::eval(program), up to its loop
StartEval(p) ==
    /\ ctl.m = "idle"
    /\ evals < MaxEvals
    /\ prog' = p
    /\ evals' = evals + 1
    /\ result' = NoResult
    /\ stack' = <<[K("eval") EXCEPT !.rest = p.stmts, !.r = OkNone]>>
    /\ ctl' = C("loop")
    /\ UNCHANGED <<frames, env, nat>>
    /\ UNCHANGED <<fvars, xvars>>

\* the first call takes any program of the model, later calls a follow-up line
Eval == \E p \in (IF evals = 0 THEN Programs ELSE FollowUps) : StartEval(p)

Init == InitInterp /\ FormatterOff /\ FrontOff /\ TypesOff /\ HostNew

Next ==
    \/ Eval
    \/ EvalLoop
    \/ EvalStmtDone
    \/ PropagateErr
    \/ ExecLet
    \/ LetDone
    \/ ExecExpr
    \/ ExprDone
    \/ ExecBlock
    \/ BlockLoop
    \/ BlockStmtDone
    \/ ExecIf
    \/ IfCond
    \/ ExecWhile
    \/ WhileCond
    \/ WhileBody
    \/ ExecFor
    \/ ForIter
    \/ ForLoop
    \/ ForBody
    \/ ExecReturn
    \/ ReturnDone
    \/ ExecBreakContinue
    \/ EvalLiteral
    \/ EvalVar
    \/ EvalAssign
    \/ AssignDone
    \/ EvalBinary
    \/ BinaryLeft
    \/ BinaryRight
    \/ EvalCall
    \/ CalleeDone
    \/ CallArgsLoop
    \/ CallArgDone
    \/ CallNative
    \/ CallUser
    \/ CallNonFunction
    \/ CallBodyLoop
    \/ CallStmtDone
    \/ EvalFn
    \/ EvalList
    \/ ListLoop
    \/ ListItemDone
    \/ EvalMap
    \/ MapLoop
    \/ MapItemDone
    \/ EvalIndex
    \/ IndexTarget
    \/ IndexDone

Spec == Init /\ [][Next]_vars

\* ------------------------------------------------------------------------
\* Formatter: the state machine that formats a source text and then formats
\* the result again
\* ------------------------------------------------------------------------

\* lexical fragments the source texts of the model are assembled from
Pieces ==
    { <<"a">>, <<";">>, <<"{">>, <<"}">>, <<NL>>, <<"/", "*">>, <<"*", "/">>,
      <<"/", "/">>, <<"\"">> }

RECURSIVE Flatten(_)
Flatten(ps) == IF ps = <<>> THEN <<>> ELSE Head(ps) \o Flatten(Tail(ps))

Sources ==
    { Flatten(ps) : ps \in UNION { [1..n -> Pieces] : n \in 0..MaxPieces } }

\* the options explored: the default indent width with every blank-line limit
\* up to MaxBlankOpt, and the defaults
OptionSet ==
    { Opts(DefaultOptions.indent_size, b) : b \in 0..MaxBlankOpt }
        \cup {DefaultOptions}

InitFormat ==
    /\ src \in Sources
    /\ opts \in OptionSet
    /\ fpc = "source"
    /\ out1 = <<>>
    /\ out2 = <<>>
    /\ rst = RenderInit
    /\ rpos = 0
    /\ InitInterp
    /\ FrontOff
    /\ TypesOff
    /\ HostNew

\* format_source_with_options(src, opts)
FormatOnce ==
    /\ fpc = "source"
    /\ out1' = format_source_with_options(src, opts)
    /\ fpc' = "formatted"
    /\ UNCHANGED <<src, opts, out2, rst, rpos>>
    /\ UNCHANGED <<ivars, xvars>>

\* formatting the formatted text again, with the same options
FormatAgain ==
    /\ fpc = "formatted"
    /\ out2' = format_source_with_options(out1, opts)
    /\ fpc' = "reformatted"
    /\ UNCHANGED <<src, opts, out1, rst, rpos>>
    /\ UNCHANGED <<ivars, xvars>>

NextFormat == FormatOnce \/ FormatAgain

SpecFormat == InitFormat /\ [][NextFormat]_vars

\* ------------------------------------------------------------------------
\* Formatter: the render loop as a state machine, one token per step
\* ------------------------------------------------------------------------

\* fragments with braces in statement position (after `)` and after `fn`),
\* braces followed by a newline, braces around a one-line block comment and
\* braces of inline literals
BracePieces ==
    { <<"{">>, <<"}">>, <<NL>>, <<")">>, <<"f", "n">>, <<"/", "*", "*", "/">>,
      <<";">> }

BraceSources ==
    { Flatten(ps) : ps \in UNION { [1..n -> BracePieces] : n \in 0..MaxPieces } }

InitRender ==
    /\ src \in BraceSources
    /\ opts = DefaultOptions
    /\ fpc = "render"
    /\ out1 = <<>>
    /\ out2 = <<>>
    /\ rst = RenderInit
    /\ rpos = 0
    /\ InitInterp
    /\ FrontOff
    /\ TypesOff
    /\ HostNew

\* the token that the render loop takes next
NextToken == tokenize(src)[rpos + 1]

\* while let Some(tok) = it.next() { match tok.kind { .. } .. }
RenderToken ==
    /\ fpc = "render"
    /\ rpos < Len(tokenize(src))
    /\ rst' = RenderStep(rst, NextToken,
                         SubSeq(tokenize(src), rpos + 2, Len(tokenize(src))),
                         opts)
    /\ rpos' = rpos + 1
    /\ UNCHANGED <<src, opts, fpc, out1, out2>>
    /\ UNCHANGED <<ivars, xvars>>

\* the end of render: trailing newlines trimmed to one
RenderDone ==
    /\ fpc = "render"
    /\ rpos = Len(tokenize(src))
    /\ out1' = Append(TrimTrailing(rst.out, NL), NL)
    /\ fpc' = "formatted"
    /\ UNCHANGED <<src, opts, out2, rst, rpos>>
    /\ UNCHANGED <<ivars, xvars>>

NextRender == RenderToken \/ RenderDone

SpecRender == InitRender /\ [][NextRender]_vars

\* ------------------------------------------------------------------------
\* Formatter properties
\* ------------------------------------------------------------------------
\* length of the longest run of consecutive newline characters in text
RECURSIVE NewlineRunFrom(_, _, _, _)
NewlineRunFrom(text, k, cur, best) ==
    IF k > Len(text) THEN best
    ELSE IF text[k] = NL
    THEN NewlineRunFrom(text, k + 1, cur + 1, Max2(best, cur + 1))
    ELSE NewlineRunFrom(text, k + 1, 0, best)

MaxNewlineRun(text) == NewlineRunFrom(text, 1, 0, 0)

\* the texts of the comment tokens of a token sequence, in order
CommentTexts(toks) ==
    LET idx == { k \in 1..Len(toks) :
                    toks[k].kind \in {"LineComment", "BlockComment"} }
        RECURSIVE Collect(_)
        Collect(k) ==
            IF k > Len(toks) THEN <<>>
            ELSE IF k \in idx THEN <<toks[k].text>> \o Collect(k + 1)
            ELSE Collect(k + 1)
    IN Collect(1)

\* does text occur in o at position k
OccursAt(o, k, text) ==
    k + Len(text) - 1 <= Len(o) /\ SubSeq(o, k, k + Len(text) - 1) = text

\* the texts occur in o as disjoint substrings, in the given order, at or
\* after position k (leftmost occurrence first)
RECURSIVE OccurInOrder(_, _, _)
OccurInOrder(o, k, texts) ==
    IF texts = <<>> THEN TRUE
    ELSE LET hits == { p \in k..Len(o) : OccursAt(o, p, Head(texts)) }
         IN IF hits = {} THEN FALSE
            ELSE LET first == CHOOSE p \in hits : \A r \in hits : p <= r
                 IN OccurInOrder(o, first + Len(Head(texts)), Tail(texts))

\* no block comment and no string literal of the token sequence holds a run
\* of more than n newline characters
TextNewlineRunsWithin(toks, n) ==
    \A k \in 1..Len(toks) :
        toks[k].kind \in {"BlockComment", "Str"}
            => MaxNewlineRun(toks[k].text) <= n

\* C1: formatting is idempotent - formatting the formatted text again, with
\* the same options, reproduces it exactly
C1_FormatIdempotent ==
    fpc = "reformatted" => out2 = out1

\* C2: comment preservation - every line and block comment tokenized from
\* the source occurs in the formatted text with exactly its original text,
\* and the comments occur in their original order
C2_CommentsPreserved ==
    fpc \in {"formatted", "reformatted"} => OccurInOrder(out1, 1, CommentTexts(tokenize(src)))

RECURSIVE CodeTokens(_)
CodeTokens(toks) ==
    IF toks = <<>> THEN <<>>
    ELSE IF Head(toks).kind \in {"Newline", "LineComment", "BlockComment"}
    THEN CodeTokens(Tail(toks))
    ELSE <<[kind |-> Head(toks).kind, text |-> Head(toks).text]>>
             \o CodeTokens(Tail(toks))

\* C27: formatting changes only layout - the code tokens that the formatter's
\* tokenizer finds in format_source(s) are those it finds in s, in the same
\* order
C27_CodeTokensPreserved ==
    (fpc \in {"formatted", "reformatted"} /\ opts = DefaultOptions)
        => CodeTokens(tokenize(out1)) = CodeTokens(tokenize(src))

\* the number of entries of the brace stack recorded as statement blocks
BlockEntries(stk) == Cardinality({ k \in 1..Len(stk) : ~stk[k] })

\* C29: render invariant - between any two tokens the indent depth is not
\* negative and equals the number of brace-stack entries recorded as statement
\* blocks; `{` pushes exactly one entry, `}` pops the top entry if there is
\* one and leaves the indent at 0 if there is none, and no other token
\* touches the stack or the indent; the text written token by token is the
\* text render returns
C29_RenderInvariant ==
    /\ [](/\ rst.indent >= 0
          /\ rst.indent = BlockEntries(rst.brace_inline_stack))
    /\ [][RenderToken =>
            LET stk == rst.brace_inline_stack
                stk2 == rst'.brace_inline_stack
            IN CASE NextToken.kind = "LBrace" ->
                      /\ Len(stk2) = Len(stk) + 1
                      /\ SubSeq(stk2, 1, Len(stk)) = stk
                 [] NextToken.kind = "RBrace" ->
                      IF stk = <<>> THEN stk2 = <<>> /\ rst'.indent = 0
                      ELSE stk2 = SubSeq(stk, 1, Len(stk) - 1)
                 [] OTHER -> stk2 = stk /\ rst'.indent = rst.indent]_vars
    /\ [](fpc = "formatted" => out1 = format_source(src))

\* C29 witness: render is inside a statement block that holds an inline
\* literal, and has met a close brace that nothing opened before
C29_Witness ==
    /\ fpc = "render"
    /\ rst.brace_inline_stack = <<FALSE, TRUE>>
    /\ rst.indent = 1
    /\ tokenize(src)[1].kind = "RBrace"

\* ------------------------------------------------------------------------
\* Interpreter properties
\* ------------------------------------------------------------------------
\* an eval call has returned
Finished == ctl.m = "idle" /\ evals >= 1

\* the number bound to x in the global frame
GlobalX == frames[GlobalFrame].values["x"].n

\* What the statements of StmtAlphabet do when executed with x = n:
\* how often they increment x, and what they yield
Incs(s) == IF s \in {SLet, SInc, SBlk} THEN 1 ELSE 0
Yield(s, n) ==
    CASE s = SInc -> OkSome(NumV(n + 1))
      [] s = SLit -> OkSome(NumV(7))
      [] s = SRet -> OkSome(NumV(9))
      [] s = SIf -> OkSome(NumV(3))
      [] s = SErr -> Err("Undefined variable")
      [] OTHER -> OkNone

\* x after the first k statements of b have run, starting from x = 0
RECURSIVE IncsUpTo(_, _)
IncsUpTo(b, k) == IF k = 0 THEN 0 ELSE IncsUpTo(b, k - 1) + Incs(b[k])

\* position of the first statement of b that yields a value or fails; 0 if none
FirstStop(b) ==
    LET stops == { i \in 1..Len(b) : Yield(b[i], 0).tag # "None" }
    IN IF stops = {} THEN 0 ELSE CHOOSE i \in stops : \A j \in stops : i <= j

\* position of the first statement of b that fails; 0 when none does
FirstErr(b) ==
    LET errs == { i \in 1..Len(b) : b[i] = SErr }
    IN IF errs = {} THEN 0 ELSE CHOOSE i \in errs : \A j \in errs : i <= j

\* first-Some-wins: result of the sequence b and the statements it ran
FirstSomeLast(b) == IF FirstStop(b) = 0 THEN Len(b) ELSE FirstStop(b)
FirstSomeResult(b) ==
    IF FirstStop(b) = 0 THEN OkNone
    ELSE Yield(b[FirstStop(b)], IncsUpTo(b, FirstStop(b) - 1))

\* C4: first-Some-wins in a sequence - in a block and in a function body the
\* first statement that yields Some(value) (or fails) ends the sequence: the
\* result is that value, and x shows the effects of the statements up to it
\* and of none after it; let, break and continue never end the sequence
C4_FirstSomeWins ==
    (Finished /\ prog.kind \in {"block", "fn"}) =>
        LET r == FirstSomeResult(prog.body)
        IN /\ GlobalX = IncsUpTo(prog.body, FirstSomeLast(prog.body))
           /\ prog.kind = "block" => result = r
           /\ prog.kind = "fn" =>
                 result = (CASE r.tag = "None" -> OkSome(NullV)
                             [] r.tag = "Some" -> r
                             [] r.tag = "Err" -> r)

\* C4 witness: a block or function body whose first statement yielded a value
\* and whose second statement, which would have incremented x, never ran
C4_Witness ==
    /\ Finished /\ prog.kind \in {"block", "fn"}
    /\ Len(prog.body) = 2 /\ FirstStop(prog.body) = 1
    /\ Incs(prog.body[2]) = 1
    /\ result.tag = "Some" /\ GlobalX = Incs(prog.body[1])

\* C5 as stated: eval returns the value of the first top-level statement that
\* yields one, and runs no top-level statement after it
C5_EvalFirstSomeWins ==
    (Finished /\ prog.kind = "top") =>
        /\ result = FirstSomeResult(prog.body)
        /\ GlobalX = IncsUpTo(prog.body, FirstSomeLast(prog.body))

\* with every top-level statement run: how far eval gets, and what it returns
EvalLast(b) == IF FirstErr(b) = 0 THEN Len(b) ELSE FirstErr(b)
EvalResult(b) ==
    IF b = <<>> THEN OkNone
    ELSE Yield(b[EvalLast(b)], IncsUpTo(b, EvalLast(b) - 1))

\* C5, as eval computes it: eval runs every top-level statement in order, stopping only
\* at a runtime error, and returns the result of the last statement it ran
\* (None when that statement yields no value)
C5_EvalRunsAllReturnsLast ==
    (Finished /\ prog.kind = "top") =>
        /\ result = EvalResult(prog.body)
        /\ GlobalX = IncsUpTo(prog.body, EvalLast(prog.body))

\* C5 witness: a top-level statement yielded a value and the statement after
\* it still ran and decided the result
C5_Witness ==
    /\ Finished /\ prog.kind = "top"
    /\ prog.body = <<SLit, SInc>>
    /\ result = OkSome(NumV(1)) /\ GlobalX = 1

\* the expression statements of the alphabet, and bodies that neither fail
\* nor return explicitly
IsExprStmt(s) == s \in {SInc, SLit}
PlainBody(b) == \A i \in 1..Len(b) : b[i] \notin {SErr, SRet, SIf}
LastExprStmt(b) ==
    CHOOSE i \in 1..Len(b) :
        IsExprStmt(b[i]) /\ \A j \in (i + 1)..Len(b) : ~IsExprStmt(b[j])

\* C6: implicit last-expression return - the value of a block, and of a
\* function body without explicit return, is the value of its last
\* expression statement
C6_BlockValueIsLastExpression ==
    (Finished /\ prog.kind \in {"block", "fn"} /\ PlainBody(prog.body)
     /\ \E i \in 1..Len(prog.body) : IsExprStmt(prog.body[i]))
        => result = Yield(prog.body[LastExprStmt(prog.body)],
                          IncsUpTo(prog.body, LastExprStmt(prog.body) - 1))

\* C7: active-frame restoration - whenever eval has returned, Ok or Err, the
\* active frame is the global frame again
C7_ActiveFrameRestored ==
    ctl.m = "idle" => env = GlobalFrame

\* C8: closure capture by reference - a function literal evaluates to a
\* closure holding the active frame itself, so a call sees assignments made
\* to that frame after the closure was created (x = a, then x = b: x + 1 is
\* b + 1) and assignments made inside a closure reach every holder of the frame
C8_ClosureCaptureByReference ==
    /\ [](Finished =>
            /\ prog.kind = "closure" => result = OkSome(NumV(prog.p1 + 1))
            /\ prog.kind = "closure_mut" => result = OkSome(NumV(prog.p2 + 1))
            /\ prog.kind = "shared" =>
                  result = OkSome(NumV(prog.p2)) /\ GlobalX = prog.p2
            /\ prog.kind = "counter" =>
                  result = OkSome(NumV(prog.p1 + 2 * prog.p2)))
    /\ [][EvalFn => (ctl'.r.val.env = env /\ frames' = frames)]_vars

\* C8 witness: x was reassigned between the creation and the call of the closure
C8_Witness ==
    /\ Finished /\ prog.kind = "closure_mut" /\ prog.p1 # prog.p2
    /\ result = OkSome(NumV(prog.p2 + 1))

\* C9: lexical scoping - a user-function call runs in a fresh frame whose
\* parent is the frame the closure captured, never the caller's frame, so a
\* free variable resolves at the definition site; a native function is
\* handed the caller's current frame
C9_LexicalScoping ==
    /\ [](Finished /\ prog.kind = "lexical" => result = OkSome(NumV(prog.p1)))
    /\ [][CallUser => /\ env' = Len(frames) + 1
                      /\ Len(frames') = Len(frames) + 1
                      /\ frames'[env'].parent = ctl.v.env]_vars
    /\ [][CallNative => nat'.env = env /\ nat'.args = ctl.vs]_vars

\* C9 witness: the caller's frame bound x to another number than the
\* definition site
C9_Witness ==
    /\ Finished /\ prog.kind = "lexical" /\ prog.p1 # prog.p2
    /\ result = OkSome(NumV(prog.p1))

\* bodies with a break or continue in which no statement yields a value
HasBreakOrContinue(b) == \E i \in 1..Len(b) : b[i] \in {Break, Continue}
InertLoopBody(b) == HasBreakOrContinue(b) /\ FirstStop(b) = 0

\* C10: break and continue are no-ops - they yield None and leave the loop
\* running: the statements after them run, a while loop goes on to its next
\* condition test and a for loop to its next element. `while (true) { break; }`
\* never returns; `for (i in [1,2]) { continue; }` returns Ok(None); a for
\* loop over two elements runs a body with break or continue twice in full
C10_BreakContinueNoOps ==
    /\ prog = WhileTrueBreak => (ctl.m # "idle" /\ ENABLED Next)
    /\ (prog.kind = "while" /\ InertLoopBody(prog.body)
        /\ IncsUpTo(prog.body, Len(prog.body)) = 0)
          => (ctl.m # "idle" /\ ENABLED Next)
    /\ (Finished /\ prog = ForContinue) => result = OkNone
    /\ (Finished /\ prog.kind = "for" /\ InertLoopBody(prog.body))
          => /\ result = OkNone
             /\ GlobalX = 2 * IncsUpTo(prog.body, Len(prog.body))
    /\ (Finished /\ prog.kind = "while" /\ InertLoopBody(prog.body))
          => /\ result = OkNone
             /\ GlobalX >= 2
             /\ GlobalX < 2 + IncsUpTo(prog.body, Len(prog.body))

\* C10 witness: a for loop whose body is `continue; let t = (x = x + 1);`
\* has returned, having run the statement after the continue twice
C10_Witness ==
    /\ Finished /\ prog.kind = "for"
    /\ prog.body = <<Continue, SLet>>
    /\ result = OkNone /\ GlobalX = 2

\* the position of the first break of b; 0 when b holds none
FirstBreak(b) ==
    LET at == { i \in 1..Len(b) : b[i] = Break }
    IN IF at = {} THEN 0 ELSE CHOOSE i \in at : \A j \in at : i <= j

\* C11: break ends a while loop - once the body of a while loop has executed
\* break no further iteration happens, so when the loop is over the
\* statements before the break have run exactly once
C11_BreakEndsWhile ==
    (Finished /\ prog.kind = "while" /\ FirstBreak(prog.body) > 0
     /\ FirstErr(prog.body) = 0)
        => GlobalX = IncsUpTo(prog.body,
                              Min2(FirstSomeLast(prog.body),
                                   FirstBreak(prog.body) - 1))

\* the frames of the scope chain that starts at frame h
RECURSIVE ScopeChain(_, _)
ScopeChain(fr, h) ==
    IF h = 0 THEN {} ELSE {h} \cup ScopeChain(fr, fr[h].parent)
BoundInScope(name) ==
    \E h \in ScopeChain(frames, env) : name \in DOMAIN frames[h].values

\* C12: undefined-name failure - a variable reference or an assignment whose
\* name is bound in no frame of the active scope chain fails with
\* "Undefined variable" and leaves every frame as it was; an assignment to a
\* bound name evaluates to the assigned value, which the name then holds
C12_UndefinedName ==
    /\ [][(EvalVar /\ ~BoundInScope(ctl.e.name))
            => (ctl'.r = Err("Undefined variable") /\ frames' = frames)]_vars
    /\ [][(AssignDone /\ ~BoundInScope(Top.name))
            => (ctl'.r = Err("Undefined variable") /\ frames' = frames)]_vars
    /\ [][(AssignDone /\ BoundInScope(Top.name))
            => (/\ ctl'.r = ctl.r
                /\ get(frames', env', Top.name) = ctl.r
                /\ \A h \in 1..Len(frames) :
                      DOMAIN frames'[h].values = DOMAIN frames[h].values)]_vars
    /\ [](Finished /\ prog.kind = "assign_undef"
            => /\ result = Err("Undefined variable")
               /\ \A h \in 1..Len(frames) : "u" \notin DOMAIN frames[h].values)

\* C12 witness: the assignment to the unbound u, made two frames deep, has
\* failed and eval has returned its error
C12_Witness ==
    /\ Finished /\ prog.kind = "assign_undef"
    /\ result.tag = "Err" /\ Len(frames) >= 2

\* frame g is the innermost frame of the active scope chain that binds name:
\* it binds name, and every other frame of the chain that does is one of its
\* ancestors
Innermost(g, name) ==
    /\ g \in ScopeChain(frames, env)
    /\ name \in DOMAIN frames[g].values
    /\ \A g2 \in ScopeChain(frames, env) \ {g} :
          name \in DOMAIN frames[g2].values
              => g2 \in ScopeChain(frames, frames[g].parent)

\* the step changes the binding of name in frame h to value and nothing else
\* in any frame
OnlyBinds(h, name, value) ==
    /\ Len(frames') = Len(frames)
    /\ \A g \in 1..Len(frames) :
          /\ frames'[g].parent = frames[g].parent
          /\ g # h => frames'[g] = frames[g]
    /\ DOMAIN frames'[h].values = DOMAIN frames[h].values \cup {name}
    /\ frames'[h].values[name] = value
    /\ \A n \in DOMAIN frames[h].values \ {name} :
          frames'[h].values[n] = frames[h].values[n]

\* C22: scope-chain frame effects - assign changes the binding of the name in
\* the innermost frame of the active chain that defines it and nothing else;
\* define changes the current frame only, overwriting a binding there; get
\* returns the value of the innermost defining frame; after
\* `let x = a; let x = b; { let x = a; x = x + 1; } x;` the global x is b and
\* is what the last statement reads
C22_ScopeChainEffects ==
    /\ [][(AssignDone /\ BoundInScope(Top.name))
            => \E g \in 1..Len(frames) :
                  Innermost(g, Top.name) /\ OnlyBinds(g, Top.name, ctl.r.val)]_vars
    /\ [][LetDone => OnlyBinds(env, Top.name, ctl.r.val)]_vars
    /\ [][(EvalVar /\ BoundInScope(ctl.e.name))
            => \E g \in 1..Len(frames) :
                  /\ Innermost(g, ctl.e.name)
                  /\ ctl'.r = OkVal(frames[g].values[ctl.e.name])
                  /\ frames' = frames]_vars
    /\ [](Finished /\ prog.kind = "shadow"
            => /\ result = OkSome(NumV(prog.p2))
               /\ frames[GlobalFrame].values["x"] = NumV(prog.p2))

\* C22 witness: the program that shadows x in a block and assigns to the
\* inner x has finished, and the outer x kept its own value
C22_Witness ==
    /\ Finished /\ prog.kind = "shadow" /\ prog.p1 # prog.p2
    /\ result = OkSome(NumV(prog.p2))

\* the frames that frame h references: its parent, and the captured frame of
\* every closure held by a value bound in it
FrameEdges(fr, h) ==
    (IF fr[h].parent # 0 THEN {fr[h].parent} ELSE {})
    \cup UNION { ValRefs(fr[h].values[n]) : n \in DOMAIN fr[h].values }

\* the frames reachable from the frames S along such references
RECURSIVE FrameClosure(_, _)
FrameClosure(fr, S) ==
    LET T == S \cup UNION { FrameEdges(fr, g) : g \in S \cap (1..Len(fr)) }
    IN IF T = S THEN S ELSE FrameClosure(fr, T)

\* C23: no cycles among frames - at all times no frame reaches itself along
\* parent links and the captured frames of the closures stored in frames
C23_NoFrameCycles ==
    \A h \in 1..Len(frames) :
        h \notin FrameClosure(frames, FrameEdges(frames, h))

\* what the targets and indexes of IndexProgram are: the lists with their
\* lengths, the map, the numbers with their values, the strings
ListTargets == (1 :> 2) @@ (2 :> 0)
MapTargets == {3}
NumberKeys == (1 :> 0) @@ (2 :> 1) @@ (3 :> 2) @@ (4 :> (0 - 1))
StringKeys == {5, 6}

\* C24: indexing never raises a runtime error - a list indexed by a number
\* that is negative or not less than its length yields Null, a map indexed by
\* a string that is not one of its keys yields Null, and every other
\* combination of target and index yields Null
C24_IndexingYieldsNull ==
    (Finished /\ prog.kind = "index") =>
        /\ result.tag = "Some"
        /\ (/\ prog.p1 \in DOMAIN ListTargets
            /\ prog.p2 \in DOMAIN NumberKeys
            /\ \/ NumberKeys[prog.p2] < 0
               \/ NumberKeys[prog.p2] >= ListTargets[prog.p1])
               => result.val = NullV
        /\ (prog.p1 \in MapTargets /\ prog.p2 = 6) => result.val = NullV
        /\ (/\ ~(prog.p1 \in DOMAIN ListTargets /\ prog.p2 \in DOMAIN NumberKeys)
            /\ ~(prog.p1 \in MapTargets /\ prog.p2 \in StringKeys))
               => result.val = NullV

\* C26: while-loop protocol - the condition is evaluated before every
\* iteration and the body runs only after a truthy condition; a body that
\* yields Some(value) ends the loop with that value at once, without another
\* condition test, so a loop over a body with `x = x + 1;` or `return 9;`
\* runs that body once, up to that statement; a body that yields None is
\* followed by the next condition test, and the loop ends with None when the
\* condition is falsy
C26_WhileProtocol ==
    /\ [][ExecWhile => ctl' = EvalC(ctl.s.cond)]_vars
    /\ [][WhileCond =>
            IF truthy(ctl.r.val) THEN ctl' = ExecC(Top.s)
            ELSE ctl' = RetC(OkNone) /\ stack' = Popped]_vars
    /\ [][WhileBody =>
            IF ctl.r.tag = "Some" THEN ctl' = RetC(ctl.r) /\ stack' = Popped
            ELSE ctl' = EvalC(Top.e)]_vars
    /\ []((Finished /\ prog.kind = "while") =>
            IF FirstStop(prog.body) > 0
            THEN /\ result = FirstSomeResult(prog.body)
                 /\ GlobalX = IncsUpTo(prog.body, FirstStop(prog.body))
            ELSE /\ result = OkNone
                 /\ GlobalX >= 2)

\* C26 witness: `while (x < 2) { x = x + 1; }` has returned the value of the
\* assignment after one iteration, with x < 2 still true
C26_Witness ==
    /\ Finished /\ prog.kind = "while"
    /\ prog.body = <<SInc>>
    /\ result = OkSome(NumV(1)) /\ GlobalX = 1

\* the left operand of a logical program is truthy
LeftTruthy == prog.p1 \in {1, 4}

\* C28: `&&` and `||` never short-circuit - once the left operand has its
\* value the right operand is evaluated, whatever the operator and the value,
\* and only then is the Bool computed from the truthiness of both: after
\* `let x = 0; L && (x = x + 1);` and `let x = 0; L || (x = x + 1);` x is 1
\* for every L, and `L && u;`, `L || u;` fail with the error of the unbound
\* u for every L
C28_NoShortCircuit ==
    /\ [][BinaryLeft => ctl' = EvalC(Top.e)]_vars
    /\ []((Finished /\ prog.kind \in {"And", "Or"}) =>
            IF prog.p2 = 1
            THEN /\ GlobalX = 1
                 /\ result = OkSome(BoolV(IF prog.kind = "And" THEN LeftTruthy
                                          ELSE TRUE))
            ELSE /\ result = Err("Undefined variable")
                 /\ GlobalX = 0)

\* C28 witness: `let x = 0; false && (x = x + 1);` has returned false, and
\* the assignment of the right operand was made
C28_Witness ==
    /\ Finished /\ prog.kind = "And" /\ prog.p1 = 2 /\ prog.p2 = 1
    /\ result = OkSome(BoolV(FALSE)) /\ GlobalX = 1

\* ------------------------------------------------------------------------
\* Front end: the lexer (lexer.rs). A source text is a sequence of
\* one-character strings; the text of a token is a string.
\* ------------------------------------------------------------------------
\* the characters of the skip pattern [ \t\r\f]+
Blank == {" ", "\t", "\r", "\f"}

\* the position after the longest run, from i, of characters that are in cs
\* (inside = TRUE) or not in cs (inside = FALSE)
RECURSIVE LexRun(_, _, _, _)
LexRun(s, i, cs, inside) ==
    IF i <= Len(s) /\ ((s[i] \in cs) = inside)
    THEN LexRun(s, i + 1, cs, inside)
    ELSE i

\* /\*([^*]|\*+[^*/])*\*+/ opened at i: the position after the first "*/" at
\* or after j, 0 if the comment is never closed
RECURSIVE BlockCommentEnd(_, _)
BlockCommentEnd(s, j) ==
    IF j + 1 > Len(s) THEN 0
    ELSE IF s[j] = "*" /\ s[j + 1] = "/" THEN j + 2
    ELSE BlockCommentEnd(s, j + 1)

\* \"([^\\\n\"]|\\.)*\" with the opening quote before j: the position after
\* the closing quote, 0 if the literal is cut by a newline or the end
RECURSIVE StringEnd(_, _)
StringEnd(s, j) ==
    IF j > Len(s) \/ s[j] = NL THEN 0
    ELSE IF s[j] = "\"" THEN j + 1
    ELSE IF s[j] = "\\"
         THEN IF j + 1 <= Len(s) /\ s[j + 1] # NL
              THEN StringEnd(s, j + 2) ELSE 0
    ELSE StringEnd(s, j + 1)

\* [0-9]+(\.[0-9]+)? starting at i
NumberEnd(s, i) ==
    LET e == LexRun(s, i, Digits, TRUE)
    IN IF e + 1 <= Len(s) /\ s[e] = "." /\ s[e + 1] \in Digits
       THEN LexRun(s, e + 1, Digits, TRUE)
       ELSE e

\* #[token(..)] patterns of two characters and of one character
TwoCharTokens ==
    (<<"<", "=">> :> "Le") @@ (<<">", "=">> :> "Ge") @@ (<<"=", "=">> :> "EqEq")
    @@ (<<"!", "=">> :> "Ne") @@ (<<"&", "&">> :> "AndAnd")
    @@ (<<"|", "|">> :> "OrOr") @@ (<<"-", ">">> :> "Arrow")
OneCharTokens ==
    ("(" :> "LParen") @@ (")" :> "RParen") @@ ("{" :> "LBrace")
    @@ ("}" :> "RBrace") @@ ("[" :> "LBracket") @@ ("]" :> "RBracket")
    @@ ("," :> "Comma") @@ ("." :> "Dot") @@ (";" :> "Semicolon")
    @@ (":" :> "Colon") @@ ("+" :> "Plus") @@ ("-" :> "Minus")
    @@ ("*" :> "Star") @@ ("/" :> "Slash") @@ ("%" :> "Percent")
    @@ ("!" :> "Bang") @@ ("?" :> "Question") @@ ("<" :> "Lt")
    @@ (">" :> "Gt") @@ ("=" :> "Assign")

\* one step of the logos lexer at position i: the longest match of the
\* LexToken patterns, the skip pattern, or an error over one character
LexMatch(s, i) ==
    LET c == s[i]
        two == IF i + 1 <= Len(s) THEN <<s[i], s[i + 1]>> ELSE <<>>
        M(t, e) == [tok |-> t, end |-> e]
    IN CASE c \in Blank -> M("Skip", LexRun(s, i, Blank, TRUE))
         [] c = NL -> M("Newline", LexRun(s, i, {NL}, TRUE))
         [] two = <<"/", "/">> -> M("LineComment", LexRun(s, i + 2, {NL}, FALSE))
         [] two = <<"/", "*">> /\ BlockCommentEnd(s, i + 2) > 0 ->
                M("BlockComment", BlockCommentEnd(s, i + 2))
         [] two \in DOMAIN TwoCharTokens -> M(TwoCharTokens[two], i + 2)
         [] c = "\"" /\ StringEnd(s, i + 1) > 0 -> M("String", StringEnd(s, i + 1))
         [] c \in Digits -> M("Number", NumberEnd(s, i))
         [] is_ident_start(c) ->
                M("Ident", LexRun(s, i, Letters \cup Digits \cup {"_"}, TRUE))
         [] c \in DOMAIN OneCharTokens -> M(OneCharTokens[c], i + 1)
         [] OTHER -> M("Error", i + 1)

\* &src[a..b] as a string
RECURSIVE Slice(_, _, _)
Slice(s, a, b) == IF a >= b THEN "" ELSE s[a] \o Slice(s, a + 1, b)

\* unescape(s) over the characters s[a..b]
RECURSIVE unescape(_, _, _)
unescape(s, a, b) ==
    IF a >= b THEN ""
    ELSE IF s[a] # "\\" THEN s[a] \o unescape(s, a + 1, b)
    ELSE IF a + 1 >= b THEN "\\"
    ELSE (CASE s[a + 1] = "n" -> "\n"
            [] s[a + 1] = "t" -> "\t"
            [] s[a + 1] = "\"" -> "\""
            [] s[a + 1] = "\\" -> "\\"
            [] s[a + 1] = "r" -> "\r"
            [] OTHER -> "\\" \o s[a + 1]) \o unescape(s, a + 2, b)

\* the identifiers that are keywords, with their TokenKind
KeywordKinds ==
    ("let" :> "Let") @@ ("fn" :> "Fn") @@ ("if" :> "If") @@ ("else" :> "Else")
    @@ ("while" :> "While") @@ ("for" :> "For") @@ ("in" :> "In")
    @@ ("return" :> "Return") @@ ("true" :> "True") @@ ("false" :> "False")
    @@ ("null" :> "Null") @@ ("break" :> "Break")
    @@ ("continue" :> "Continue")

\* LexToken -> TokenKind for the punctuation
PunctKinds ==
    ("LParen" :> "LeftParen") @@ ("RParen" :> "RightParen")
    @@ ("LBrace" :> "LeftBrace") @@ ("RBrace" :> "RightBrace")
    @@ ("LBracket" :> "LeftBracket") @@ ("RBracket" :> "RightBracket")
    @@ ("Comma" :> "Comma") @@ ("Dot" :> "Dot") @@ ("Semicolon" :> "Semicolon")
    @@ ("Colon" :> "Colon") @@ ("Plus" :> "Plus") @@ ("Minus" :> "Minus")
    @@ ("Star" :> "Star") @@ ("Slash" :> "Slash") @@ ("Percent" :> "Percent")
    @@ ("Bang" :> "Bang") @@ ("Question" :> "Question")
    @@ ("Le" :> "LessEqual") @@ ("Ge" :> "GreaterEqual")
    @@ ("EqEq" :> "EqualEqual") @@ ("Ne" :> "BangEqual")
    @@ ("AndAnd" :> "AndAnd") @@ ("OrOr" :> "OrOr") @@ ("Arrow" :> "Arrow")
    @@ ("Lt" :> "Less") @@ ("Gt" :> "Greater") @@ ("Assign" :> "Assign")

\* the TokenKind of the match m that starts at i: kind is the variant, text
\* its payload (the name, the unescaped string, the digits of the number)
TokenKindOf(s, i, m) ==
    LET TK(k, t) == [kind |-> k, text |-> t]
        word == Slice(s, i, m.end)
    IN CASE m.tok = "String" -> TK("String", unescape(s, i + 1, m.end - 1))
         [] m.tok = "Number" -> TK("Number", word)
         [] m.tok = "Ident" ->
                IF word \in DOMAIN KeywordKinds
                THEN TK(KeywordKinds[word], "") ELSE TK("Identifier", word)
         [] OTHER -> TK(PunctKinds[m.tok], "")

\* the line/col bookkeeping over the characters s[a..b) of a block comment or
\* of skipped text: a newline starts a line, any other character is a column
RECURSIVE Advance(_, _, _, _)
Advance(s, a, b, lc) ==
    IF a >= b THEN lc
    ELSE Advance(s, a + 1, b,
                 IF s[a] = NL THEN [line |-> lc.line + 1, col |-> 1]
                 ELSE [line |-> lc.line, col |-> lc.col + 1])

\* the loop of Lexer::lex from position i (= last_end) with position lc and
\* the tokens out pushed so far; each token keeps its span.start as `start`
RECURSIVE LexLoop(_, _, _, _)
LexLoop(s, i, lc, out) ==
    IF i > Len(s) THEN out
    ELSE LET m == LexMatch(s, i)
         IN CASE m.tok = "Skip" -> LexLoop(s, m.end, Advance(s, i, m.end, lc), out)
              [] m.tok = "Newline" ->
                     LexLoop(s, m.end, [line |-> lc.line + 1, col |-> 1], out)
              [] m.tok \in {"LineComment", "Error"} -> LexLoop(s, m.end, lc, out)
              [] m.tok = "BlockComment" ->
                     LexLoop(s, m.end, Advance(s, i, m.end, lc), out)
              [] OTHER ->
                     LexLoop(s, m.end, lc,
                             Append(out, TokenKindOf(s, i, m)
                                         @@ [line |-> lc.line, col |-> lc.col,
                                             start |-> i]))

\* Lexer::new(src).lex(): the tokens, each a Token {kind, line, col}
lex(s) ==
    LET all == LexLoop(s, 1, [line |-> 1, col |-> 1], <<>>)
    IN [k \in 1..Len(all) |->
            [kind |-> all[k].kind, text |-> all[k].text,
             line |-> all[k].line, col |-> all[k].col]]

\* lexer.span().start of each token that lex pushes, 1-based
Spans(s) ==
    LET all == LexLoop(s, 1, [line |-> 1, col |-> 1], <<>>)
    IN [k \in 1..Len(all) |-> all[k].start]

\* ------------------------------------------------------------------------
\* Front end: the parser (parser.rs). t is Parser.tokens, p is Parser.pos
\* counted from 1. A parsing function returns POk(pos, node) or PFail(err).
\* ------------------------------------------------------------------------
POk(p, node) == [ok |-> TRUE, pos |-> p, node |-> node]
PFail(err) == [ok |-> FALSE, err |-> err]

\* Parser::check
check(t, p, kind) == p <= Len(t) /\ t[p].kind = kind

\* Parser::error_unexpected
error_unexpected(t, p) ==
    IF p <= Len(t)
    THEN [tag |-> "Unexpected", line |-> t[p].line, col |-> t[p].col]
    ELSE [tag |-> "Eof"]

\* Parser::error_expected
error_expected(t, p, expected) ==
    IF p <= Len(t)
    THEN [tag |-> "Expected", expected |-> expected,
          line |-> t[p].line, col |-> t[p].col]
    ELSE [tag |-> "Eof"]

\* Parser::consume; the node of the result is the token consumed
consume(t, p, kind, expected) ==
    IF check(t, p, kind) THEN POk(p + 1, t[p])
    ELSE PFail(error_expected(t, p, expected))

\* Parser::consume_ident; the node of the result is the name
consume_ident(t, p, expected) ==
    IF check(t, p, "Identifier") THEN POk(p + 1, t[p].text)
    ELSE PFail(error_expected(t, p, expected))

\* Parser::optional: the position after the token if it is there
optional(t, p, kind) == IF check(t, p, kind) THEN p + 1 ELSE p

\* looks_like_map_literal looking at the first token after the brace only
looks_like_map_literal_ident(t, p) ==
    /\ check(t, p, "LeftBrace")
    /\ p + 1 <= Len(t)
    /\ t[p + 1].kind = "Identifier"

\* Parser::looks_like_map_literal
looks_like_map_literal(t, p) ==
    /\ check(t, p, "LeftBrace")
    /\ p + 2 <= Len(t)
    /\ t[p + 1].kind = "Identifier"
    /\ t[p + 2].kind = "Colon"

\* Parser::peek_next_is_identifier
peek_next_is_identifier(t, p) ==
    p + 1 <= Len(t) /\ t[p + 1].kind = "Identifier"

\* TypeExpr, and None for a missing annotation
NoType == [t |-> "None"]
TypeName(n) == [t |-> n]
TypeOf1(n, inner) == [t |-> n, of |-> inner]
TypeFunc(args, ret) == [t |-> "Func", args |-> args, ret |-> ret]

\* a literal as the parser builds it, from the token's kind and text
Literal(tag, text) == [k |-> "Literal", lit |-> [tag |-> tag, text |-> text]]
FnLit(sig) ==
    [k |-> "Fn", params |-> sig.params, ret |-> sig.ret, body |-> sig.body]
LetTy(name, ty, init) ==
    [k |-> "Let", name |-> name, ty |-> ty, init |-> init]

\* the levels with term and factor merged: + - * / % bind alike
BinaryLevelsFlat ==
    << ("OrOr" :> "Or"),
       ("AndAnd" :> "And"),
       ("EqualEqual" :> "Eq") @@ ("BangEqual" :> "Ne"),
       ("Less" :> "Lt") @@ ("LessEqual" :> "Le") @@ ("Greater" :> "Gt")
           @@ ("GreaterEqual" :> "Ge"),
       ("Plus" :> "Add") @@ ("Minus" :> "Sub") @@ ("Star" :> "Mul")
           @@ ("Slash" :> "Div") @@ ("Percent" :> "Mod") >>

\* the operator tokens of or, and, equality, comparison, term and factor,
\* loosest binding first, with the BinOp each one stands for
BinaryLevels ==
    << ("OrOr" :> "Or"),
       ("AndAnd" :> "And"),
       ("EqualEqual" :> "Eq") @@ ("BangEqual" :> "Ne"),
       ("Less" :> "Lt") @@ ("LessEqual" :> "Le") @@ ("Greater" :> "Gt")
           @@ ("GreaterEqual" :> "Ge"),
       ("Plus" :> "Add") @@ ("Minus" :> "Sub"),
       ("Star" :> "Mul") @@ ("Slash" :> "Div") @@ ("Percent" :> "Mod") >>

RECURSIVE declaration(_, _), statement(_, _), BlockStmts(_, _, _),
          assignment(_, _), binary(_, _, _), BinaryLoop(_, _, _, _),
          unary(_, _), CallLoop(_, _, _), primary(_, _),
          ExprList(_, _, _), MapProps(_, _, _), function_literal(_, _),
          Params(_, _, _), parse_type(_, _), TypeList(_, _, _),
          RecordFields(_, _, _)

\* the `?` operator: an Err is returned at once, an Ok value is passed on
Try(r, Rest(_)) == IF r.ok THEN Rest(r) ELSE r

\* Parser::expression
expression(t, p) == assignment(t, p)

\* Parser::block, the opening brace already consumed
block(t, p) == BlockStmts(t, p, <<>>)

BlockStmts(t, p, stmts) ==
    IF ~check(t, p, "RightBrace") /\ p <= Len(t)
    THEN Try(declaration(t, p),
             LAMBDA d : BlockStmts(t, d.pos, Append(stmts, d.node)))
    ELSE Try(consume(t, p, "RightBrace", "}"), LAMBDA c : POk(c.pos, stmts))

\* let_decl without the check for the colon: the annotation is optional
let_decl_untyped(t, p) ==
    Try(consume_ident(t, p, "identifier"), LAMBDA name :
    Try(IF check(t, name.pos, "Colon") THEN parse_type(t, name.pos + 1)
        ELSE POk(name.pos, NoType), LAMBDA ty :
    Try(consume(t, ty.pos, "Assign", "="), LAMBDA asg :
    Try(expression(t, asg.pos), LAMBDA init :
        POk(optional(t, init.pos, "Semicolon"),
            LetTy(name.node, ty.node, init.node))))))

\* Parser::let_decl, the `let` already consumed
let_decl(t, p) ==
    Try(consume_ident(t, p, "identifier"), LAMBDA name :
        IF ~check(t, name.pos, "Colon")
        THEN PFail(error_expected(t, name.pos, ": type annotation"))
        ELSE
    Try(parse_type(t, name.pos + 1), LAMBDA ty :
    Try(consume(t, ty.pos, "Assign", "="), LAMBDA asg :
    Try(expression(t, asg.pos), LAMBDA init :
        POk(optional(t, init.pos, "Semicolon"),
            LetTy(name.node, ty.node, init.node))))))

\* Parser::fn_decl, the `fn` already consumed
fn_decl(t, p) ==
    Try(consume_ident(t, p, "function name"), LAMBDA name :
    Try(function_literal(t, name.pos), LAMBDA sig :
        LET ps == sig.node.params
            ty == IF (\A i \in 1..Len(ps) : ps[i].ty # NoType)
                     /\ sig.node.ret # NoType
                  THEN TypeFunc([i \in 1..Len(ps) |-> ps[i].ty], sig.node.ret)
                  ELSE NoType
        IN POk(sig.pos, LetTy(name.node, ty, FnLit(sig.node)))))

\* Parser::declaration
declaration(t, p) ==
    IF check(t, p, "Let") THEN let_decl(t, p + 1)
    ELSE IF check(t, p, "Fn") /\ peek_next_is_identifier(t, p)
         THEN fn_decl(t, p + 1)
    ELSE statement(t, p)

\* Parser::if_stmt, the `if` already consumed
if_stmt(t, p) ==
    Try(consume(t, p, "LeftParen", "("), LAMBDA lp :
    Try(expression(t, lp.pos), LAMBDA cond :
    Try(consume(t, cond.pos, "RightParen", ")"), LAMBDA rp :
    Try(statement(t, rp.pos), LAMBDA then :
        IF ~check(t, then.pos, "Else")
        THEN POk(then.pos, If(cond.node, then.node, NoStmt))
        ELSE
    Try(statement(t, then.pos + 1), LAMBDA else :
        POk(else.pos, If(cond.node, then.node, else.node)))))))

\* Parser::while_stmt, the `while` already consumed
while_stmt(t, p) ==
    Try(consume(t, p, "LeftParen", "("), LAMBDA lp :
    Try(expression(t, lp.pos), LAMBDA cond :
    Try(consume(t, cond.pos, "RightParen", ")"), LAMBDA rp :
    Try(statement(t, rp.pos), LAMBDA body :
        POk(body.pos, While(cond.node, body.node))))))

\* Parser::for_stmt, the `for` already consumed
for_stmt(t, p) ==
    Try(consume(t, p, "LeftParen", "("), LAMBDA lp :
    Try(consume_ident(t, lp.pos, "loop variable"), LAMBDA name :
    Try(consume(t, name.pos, "In", "in"), LAMBDA in :
    Try(expression(t, in.pos), LAMBDA iter :
    Try(consume(t, iter.pos, "RightParen", ")"), LAMBDA rp :
    Try(statement(t, rp.pos), LAMBDA body :
        POk(body.pos, For(name.node, iter.node, body.node))))))))

\* Parser::statement
statement(t, p) ==
    IF check(t, p, "If") THEN if_stmt(t, p + 1)
    ELSE IF check(t, p, "While") THEN while_stmt(t, p + 1)
    ELSE IF check(t, p, "For") THEN for_stmt(t, p + 1)
    ELSE IF check(t, p, "LeftBrace") /\ ~looks_like_map_literal(t, p)
         THEN Try(block(t, p + 1), LAMBDA blk : POk(blk.pos, Block(blk.node)))
    ELSE IF check(t, p, "Return")
         THEN IF check(t, p + 1, "Semicolon") THEN POk(p + 2, Return(NoExpr))
              ELSE Try(expression(t, p + 1), LAMBDA v :
                       POk(optional(t, v.pos, "Semicolon"), Return(v.node)))
    ELSE IF check(t, p, "Break")
         THEN POk(optional(t, p + 1, "Semicolon"), Break)
    ELSE IF check(t, p, "Continue")
         THEN POk(optional(t, p + 1, "Semicolon"), Continue)
    ELSE Try(expression(t, p), LAMBDA expr :
             POk(optional(t, expr.pos, "Semicolon"), ExprS(expr.node)))

\* Parser::assignment
assignment(t, p) ==
    Try(binary(t, p, 1), LAMBDA expr :
        IF ~check(t, expr.pos, "Assign") THEN expr
        ELSE
    Try(assignment(t, expr.pos + 1), LAMBDA value :
        IF expr.node.k = "Var"
        THEN POk(value.pos, Assign(expr.node.name, value.node))
        ELSE PFail(error_expected(t, value.pos, "assignable expression"))))

\* Parser::or, and, equality, comparison, term, factor: level 1 to 6
binary(t, p, level) ==
    IF level > Len(BinaryLevels) THEN unary(t, p)
    ELSE Try(binary(t, p, level + 1),
             LAMBDA left : BinaryLoop(t, left.pos, level, left.node))

\* the while loop of these six functions, with expr parsed so far
BinaryLoop(t, p, level, expr) ==
    IF p <= Len(t) /\ t[p].kind \in DOMAIN BinaryLevels[level]
    THEN Try(binary(t, p + 1, level + 1), LAMBDA right :
             BinaryLoop(t, right.pos, level,
                        Binary(expr, BinaryLevels[level][t[p].kind],
                               right.node)))
    ELSE POk(p, expr)

\* Parser::unary
unary(t, p) ==
    IF check(t, p, "Bang")
    THEN Try(unary(t, p + 1), LAMBDA e : POk(e.pos, Unary("Not", e.node)))
    ELSE IF check(t, p, "Minus")
         THEN Try(unary(t, p + 1), LAMBDA e : POk(e.pos, Unary("Neg", e.node)))
    ELSE Try(primary(t, p), LAMBDA f : CallLoop(t, f.pos, f.node))

\* expression (, expression)* with the items parsed so far
ExprList(t, p, items) ==
    Try(expression(t, p), LAMBDA e :
        IF check(t, e.pos, "Comma")
        THEN ExprList(t, e.pos + 1, Append(items, e.node))
        ELSE POk(e.pos, Append(items, e.node)))

\* the loop of Parser::call with expr parsed so far
CallLoop(t, p, expr) ==
    IF check(t, p, "LeftParen")
    THEN Try(IF check(t, p + 1, "RightParen") THEN POk(p + 1, <<>>)
             ELSE ExprList(t, p + 1, <<>>), LAMBDA args :
         Try(consume(t, args.pos, "RightParen", ")"), LAMBDA rp :
             CallLoop(t, rp.pos, Call(expr, args.node))))
    ELSE IF check(t, p, "LeftBracket")
         THEN Try(expression(t, p + 1), LAMBDA idx :
              Try(consume(t, idx.pos, "RightBracket", "]"), LAMBDA rb :
                  CallLoop(t, rb.pos, Index(expr, idx.node))))
    ELSE IF check(t, p, "Dot")
         THEN Try(consume_ident(t, p + 1, "field name"), LAMBDA name :
                  CallLoop(t, name.pos, Field(expr, name.node)))
    ELSE POk(p, expr)

\* key : expression (, key : expression)* of a map literal
MapProps(t, p, props) ==
    Try(consume_ident(t, p, "map key"), LAMBDA key :
    Try(consume(t, key.pos, "Colon", ":"), LAMBDA colon :
    Try(expression(t, colon.pos), LAMBDA val :
        IF check(t, val.pos, "Comma")
        THEN MapProps(t, val.pos + 1, Append(props, <<key.node, val.node>>))
        ELSE POk(val.pos, Append(props, <<key.node, val.node>>)))))

\* Parser::primary
primary(t, p) ==
    CASE check(t, p, "True") -> POk(p + 1, Literal("Bool", "true"))
      [] check(t, p, "False") -> POk(p + 1, Literal("Bool", "false"))
      [] check(t, p, "Null") -> POk(p + 1, Literal("Null", ""))
      [] check(t, p, "Number") -> POk(p + 1, Literal("Number", t[p].text))
      [] check(t, p, "String") -> POk(p + 1, Literal("String", t[p].text))
      [] check(t, p, "Identifier") -> POk(p + 1, Var(t[p].text))
      [] check(t, p, "LeftParen") ->
             Try(expression(t, p + 1), LAMBDA e :
             Try(consume(t, e.pos, "RightParen", ")"), LAMBDA rp :
                 POk(rp.pos, e.node)))
      [] check(t, p, "LeftBracket") ->
             Try(IF check(t, p + 1, "RightBracket") THEN POk(p + 1, <<>>)
                 ELSE ExprList(t, p + 1, <<>>), LAMBDA items :
             Try(consume(t, items.pos, "RightBracket", "]"), LAMBDA rb :
                 POk(rb.pos, List(items.node))))
      [] check(t, p, "LeftBrace") ->
             Try(IF check(t, p + 1, "RightBrace") THEN POk(p + 1, <<>>)
                 ELSE MapProps(t, p + 1, <<>>), LAMBDA props :
             Try(consume(t, props.pos, "RightBrace", "}"), LAMBDA rc :
                 POk(rc.pos, MapLit(props.node))))
      [] check(t, p, "Fn") ->
             Try(function_literal(t, p + 1), LAMBDA sig :
                 POk(sig.pos, FnLit(sig.node)))
      [] OTHER -> PFail(error_unexpected(t, p))

\* name [: Type] (, name [: Type])* of a parameter list
Params(t, p, params) ==
    Try(consume_ident(t, p, "parameter name"), LAMBDA pname :
    Try(IF check(t, pname.pos, "Colon") THEN parse_type(t, pname.pos + 1)
        ELSE POk(pname.pos, NoType), LAMBDA pty :
        LET more == Append(params, [name |-> pname.node, ty |-> pty.node])
        IN IF check(t, pty.pos, "Comma") THEN Params(t, pty.pos + 1, more)
           ELSE POk(pty.pos, more)))

\* Parser::function_literal: the FnSig (params, ret, body)
function_literal(t, p) ==
    Try(consume(t, p, "LeftParen", "("), LAMBDA lp :
    Try(IF check(t, lp.pos, "RightParen") THEN POk(lp.pos, <<>>)
        ELSE Params(t, lp.pos, <<>>), LAMBDA params :
    Try(consume(t, params.pos, "RightParen", ")"), LAMBDA rp :
    Try(IF check(t, rp.pos, "Arrow") THEN parse_type(t, rp.pos + 1)
        ELSE POk(rp.pos, NoType), LAMBDA ret :
    Try(consume(t, ret.pos, "LeftBrace", "{"), LAMBDA lb :
    Try(block(t, lb.pos), LAMBDA body :
        POk(body.pos, [params |-> params.node, ret |-> ret.node,
                       body |-> body.node])))))))

\* Type (, Type)* of a function type
TypeList(t, p, args) ==
    Try(parse_type(t, p), LAMBDA a :
        IF check(t, a.pos, "Comma")
        THEN TypeList(t, a.pos + 1, Append(args, a.node))
        ELSE POk(a.pos, Append(args, a.node)))

\* name : Type (, name : Type)* of a record type
RecordFields(t, p, fields) ==
    IF ~check(t, p, "Identifier")
    THEN PFail(error_expected(t, p, "identifier"))
    ELSE
    Try(consume(t, p + 1, "Colon", ":"), LAMBDA colon :
    Try(parse_type(t, colon.pos), LAMBDA fty :
        LET more == Append(fields, <<t[p].text, fty.node>>)
        IN IF check(t, fty.pos, "Comma")
           THEN RecordFields(t, fty.pos + 1, more)
           ELSE POk(fty.pos, more)))

\* the type names that parse_type knows, with the TypeExpr variant
TypeNames ==
    ("number" :> "Number") @@ ("string" :> "String") @@ ("bool" :> "Bool")
    @@ ("null" :> "Null") @@ ("any" :> "Any")

\* Parser::parse_type
parse_type(t, p) ==
    LET name == IF check(t, p, "Identifier") THEN t[p].text ELSE ""
    IN CASE check(t, p, "Fn") ->
                Try(consume(t, p + 1, "LeftParen", "("), LAMBDA lp :
                Try(IF check(t, lp.pos, "RightParen") THEN POk(lp.pos, <<>>)
                    ELSE TypeList(t, lp.pos, <<>>), LAMBDA args :
                Try(consume(t, args.pos, "RightParen", ")"), LAMBDA rp :
                Try(consume(t, rp.pos, "Arrow", "->"), LAMBDA arrow :
                Try(parse_type(t, arrow.pos), LAMBDA ret :
                    POk(ret.pos, TypeFunc(args.node, ret.node)))))))
         [] name \in DOMAIN TypeNames -> POk(p + 1, TypeName(TypeNames[name]))
         [] name \in {"list", "map"} ->
                Try(consume(t, p + 1, "Less", "<"), LAMBDA lt :
                Try(parse_type(t, lt.pos), LAMBDA inner :
                Try(consume(t, inner.pos, "Greater", ">"), LAMBDA gt :
                    POk(gt.pos, TypeOf1(IF name = "list" THEN "List" ELSE "Map",
                                        inner.node)))))
         [] name = "record" ->
                Try(consume(t, p + 1, "LeftBrace", "{"), LAMBDA lb :
                Try(IF check(t, lb.pos, "RightBrace") THEN POk(lb.pos, <<>>)
                    ELSE RecordFields(t, lb.pos, <<>>), LAMBDA fields :
                Try(consume(t, fields.pos, "RightBrace", "}"), LAMBDA rb :
                    POk(rb.pos, [t |-> "Record", fields |-> fields.node]))))
         [] check(t, p, "Null") -> POk(p + 1, TypeName("Null"))
         [] OTHER -> PFail(error_expected(t, p, "type"))

\* the loop of Parser::parse_program with the statements parsed so far
RECURSIVE ProgramLoop(_, _, _)
ProgramLoop(t, p, statements) ==
    IF p > Len(t) THEN [tag |-> "Ok", statements |-> statements]
    ELSE LET Rest(d) ==
                 IF d.ok THEN ProgramLoop(t, d.pos, Append(statements, d.node))
                 ELSE [tag |-> "Err", err |-> d.err]
         IN Rest(declaration(t, p))

\* Parser::parse_program: Ok(Program) or Err(ParseError)
parse_program(t) == ProgramLoop(t, 1, <<>>)

\* ------------------------------------------------------------------------
\* Type checker (typecheck.rs): types
\* ------------------------------------------------------------------------
\* Type: Number, String, Bool, Null, Any, List(of), Map(of), Func(args, ret)
TNumber == [t |-> "Number"]
TString == [t |-> "String"]
TBool == [t |-> "Bool"]
TNull == [t |-> "Null"]
TAny == [t |-> "Any"]
TList(of) == [t |-> "List", of |-> of]
TMap(of) == [t |-> "Map", of |-> of]
TFunc(args, ret) == [t |-> "Func", args |-> args, ret |-> ret]

\* is_compatible without the arm that lets null flow anywhere
RECURSIVE is_compatible_no_null(_, _)
is_compatible_no_null(a, b) ==
    IF a = b \/ b = TAny \/ a = TAny THEN TRUE
    ELSE CASE a.t = "List" /\ b.t = "List" -> is_compatible_no_null(a.of, b.of)
           [] a.t = "Map" /\ b.t = "Map" -> is_compatible_no_null(a.of, b.of)
           [] OTHER -> FALSE

\* is_compatible(a, b)
RECURSIVE is_compatible(_, _)
is_compatible(a, b) ==
    IF a = b \/ b = TAny \/ a = TAny THEN TRUE
    ELSE CASE a.t = "List" /\ b.t = "List" -> is_compatible(a.of, b.of)
           [] a.t = "Map" /\ b.t = "Map" -> is_compatible(a.of, b.of)
           [] a.t = "Null" -> TRUE
           [] OTHER -> FALSE

\* the types of the model: the five simple types, functions of at most one
\* argument over them, and lists and maps nested up to depth d
BaseTypes == {TNumber, TString, TBool, TNull, TAny}
FuncTypes ==
    { TFunc(args, ret) :
        args \in {<<>>} \cup { <<b>> : b \in BaseTypes }, ret \in BaseTypes }
RECURSIVE TypesUpTo(_)
TypesUpTo(d) ==
    IF d = 0 THEN BaseTypes
    ELSE BaseTypes \cup FuncTypes
            \cup { TList(x) : x \in TypesUpTo(d - 1) }
            \cup { TMap(x) : x \in TypesUpTo(d - 1) }

\* ------------------------------------------------------------------------
\* Type checker (typecheck.rs): check_program. A checker state is the
\* TypeEnv's vars and the errors pushed so far; a message is the sequence of
\* the literal pieces of its format string and of the values formatted into
\* it, each literal cut after the phrase that names the kind of error.
\* ------------------------------------------------------------------------
\* Type::from_expr
RECURSIVE from_expr(_)
from_expr(x) ==
    CASE x.t = "Number" -> TNumber
      [] x.t = "String" -> TString
      [] x.t = "Bool" -> TBool
      [] x.t = "Null" -> TNull
      [] x.t = "List" -> TList(from_expr(x.of))
      [] x.t = "Map" -> TMap(from_expr(x.of))
      [] x.t = "Func" ->
             TFunc([i \in 1..Len(x.args) |-> from_expr(x.args[i])],
                   from_expr(x.ret))
      [] x.t = "Any" -> TAny

\* impl Display for Type
RECURSIVE Display(_)
DisplayArgs(args) ==
    LET RECURSIVE Join(_)
        Join(i) == IF i > Len(args) THEN ""
                   ELSE (IF i > 1 THEN ", " ELSE "") \o Display(args[i])
                        \o Join(i + 1)
    IN Join(1)
Display(ty) ==
    CASE ty.t = "Number" -> "number"
      [] ty.t = "String" -> "string"
      [] ty.t = "Bool" -> "bool"
      [] ty.t = "Null" -> "null"
      [] ty.t = "Any" -> "any"
      [] ty.t = "List" -> "list<" \o Display(ty.of) \o ">"
      [] ty.t = "Map" -> "map<" \o Display(ty.of) \o ">"
      [] ty.t = "Func" ->
             "fn(" \o DisplayArgs(ty.args) \o ") -> " \o Display(ty.ret)

\* TypeError {message, subject}; subject "" stands for None
TypeError(message, subject) == [message |-> message, subject |-> subject]

\* unify(a, b)
RECURSIVE unify(_, _)
unify(a, b) ==
    IF a = b THEN a
    ELSE CASE a = TAny -> b
           [] b = TAny -> a
           [] a.t = "List" /\ b.t = "List" -> TList(unify(a.of, b.of))
           [] a.t = "Map" /\ b.t = "Map" -> TMap(unify(a.of, b.of))
           [] OTHER -> TAny

\* prelude: the types of the builtins
prelude ==
    ("print" :> TFunc(<<TAny>>, TNull))
    @@ ("clock" :> TFunc(<<>>, TNumber))
    @@ ("random" :> TFunc(<<>>, TNumber))
    @@ ("len" :> TFunc(<<TAny>>, TNumber))
    @@ ("keys" :> TFunc(<<TMap(TAny)>>, TList(TString)))
    @@ ("push" :> TFunc(<<TList(TAny), TAny>>, TList(TAny)))
    @@ ("pop" :> TFunc(<<TList(TAny)>>, TAny))
    @@ ("on" :> TFunc(<<TString, TAny>>, TNull))
    @@ ("emit" :> TFunc(<<TString, TAny>>, TNull))
    @@ ("host" :> TFunc(<<TString, TAny>>, TAny))

\* env.vars.insert(name, ty)
Insert(vs, name, ty) == (name :> ty) @@ vs

\* a checker state with one more error
PushError(st, message, subject) ==
    [st EXCEPT !.errors = Append(@, TypeError(message, subject))]

\* the result of infer_expr: the type and the checker state after it
Inferred(ty, st) == [ty |-> ty, vars |-> st.vars, errors |-> st.errors]
StateOf(r) == [vars |-> r.vars, errors |-> r.errors]

\* the arm Expr::Binary without its checks: the type of the operation, and
\* no error whatever the operands are
InferBinaryUnchecked(op, l, r, st) ==
    Inferred(IF op \in {"Add", "Sub", "Mul", "Div", "Mod"}
             THEN (IF l = TString THEN TString ELSE TNumber)
             ELSE TBool, st)

\* the arm Expr::Binary of infer_expr once both operands are inferred: the
\* type of the operation on operands of type l and r, in checker state st
InferBinary(op, l, r, st) ==
    CASE op = "Add" ->
             IF (l = TNumber /\ r = TNumber) \/ (l = TString /\ r = TString)
             THEN Inferred(IF l = TNumber THEN TNumber ELSE TString, st)
             ELSE Inferred(TAny,
                      PushError(st, <<"Invalid types for +", ": ", Display(l),
                                      " and ", Display(r)>>, ""))
      [] op \in {"Sub", "Mul", "Div", "Mod"} ->
             IF l = TNumber /\ r = TNumber THEN Inferred(TNumber, st)
             ELSE Inferred(TAny,
                      PushError(st, <<"Number operands required", ", got ",
                                      Display(l), " and ", Display(r)>>, ""))
      [] op \in {"Eq", "Ne"} -> Inferred(TBool, st)
      [] op \in {"Lt", "Le", "Gt", "Ge"} ->
             IF l = TNumber /\ r = TNumber THEN Inferred(TBool, st)
             ELSE Inferred(TAny,
                      PushError(st, <<"Number operands required",
                                      " for comparison, got ", Display(l),
                                      " and ", Display(r)>>, ""))
      [] op \in {"And", "Or"} ->
             IF l = TBool /\ r = TBool THEN Inferred(TBool, st)
             ELSE Inferred(TAny,
                      PushError(st, <<"Boolean operands required",
                                      " for logical operation, got ",
                                      Display(l), " and ", Display(r)>>, ""))

\* a block whose bindings stay in the environment of the enclosing scope
AfterBlockKept(st, inner) == inner

\* the end of the Block arm of check_stmt: the statements of the block were
\* checked on `child`, a copy of env, which is dropped; the errors were pushed
\* to the shared vector
AfterBlock(st, inner) == [vars |-> st.vars, errors |-> inner.errors]

RECURSIVE check_stmt(_, _, _), CheckStmts(_, _, _), infer_expr(_, _),
          InferAll(_, _, _), InferUnified(_, _, _), CheckArgs(_, _, _, _)

\* for s in stmts { check_stmt(s, env, expected_ret, errors) }
CheckStmts(stmts, st, expected_ret) ==
    IF stmts = <<>> THEN st
    ELSE CheckStmts(Tail(stmts), check_stmt(Head(stmts), st, expected_ret),
                    expected_ret)

\* check_stmt; expected_ret is a Type, or NoType for None
check_stmt(stmt, st, expected_ret) ==
    CASE stmt.k = "Let" ->
             LET i == infer_expr(stmt.init, st)
                 ann_t == from_expr(stmt.ty)
             IN IF stmt.ty # NoType
                THEN LET s1 == IF ~is_compatible(i.ty, ann_t)
                               THEN PushError(StateOf(i),
                                        <<"Type mismatch", ": variable '",
                                          stmt.name, "' initialized with ",
                                          Display(i.ty), " but annotated as ",
                                          Display(ann_t)>>, stmt.name)
                               ELSE StateOf(i)
                     IN [s1 EXCEPT !.vars = Insert(@, stmt.name, ann_t)]
                ELSE [vars |-> Insert(i.vars, stmt.name, i.ty),
                      errors |-> i.errors]
      [] stmt.k = "Expr" -> StateOf(infer_expr(stmt.e, st))
      [] stmt.k = "Block" ->
             AfterBlock(st, CheckStmts(stmt.body, st, expected_ret))
      [] stmt.k \in {"If", "While"} ->
             LET c == infer_expr(stmt.cond, st)
                 s1 == IF ~is_compatible(c.ty, TBool)
                       THEN PushError(StateOf(c),
                                <<stmt.k, " condition must be bool", ", got ",
                                  Display(c.ty)>>, "")
                       ELSE StateOf(c)
             IN IF stmt.k = "While" THEN check_stmt(stmt.body, s1, expected_ret)
                ELSE LET s2 == check_stmt(stmt.then_branch, s1, expected_ret)
                     IN IF stmt.else_branch = NoStmt THEN s2
                        ELSE check_stmt(stmt.else_branch, s2, expected_ret)
      [] stmt.k = "For" ->
             LET it == infer_expr(stmt.iter, st)
             IN IF it.ty.t = "List"
                THEN [vars |-> it.vars,
                      errors |->
                          check_stmt(stmt.body,
                                     [vars |-> Insert(it.vars, stmt.name, it.ty.of),
                                      errors |-> it.errors],
                                     expected_ret).errors]
                ELSE PushError(StateOf(it),
                         <<"For expects list", ", got ", Display(it.ty)>>,
                         stmt.name)
      [] stmt.k = "Return" ->
             IF stmt.e # NoExpr
             THEN LET v == infer_expr(stmt.e, st)
                  IN IF expected_ret # NoType /\ ~is_compatible(v.ty, expected_ret)
                     THEN PushError(StateOf(v),
                              <<"Return type ", Display(v.ty),
                                " does not match expected ",
                                Display(expected_ret)>>, "")
                     ELSE StateOf(v)
             ELSE IF expected_ret # NoType /\ ~is_compatible(TNull, expected_ret)
                  THEN PushError(st, <<"Return type null",
                                       " does not match expected ",
                                       Display(expected_ret)>>, "")
                  ELSE st
      [] stmt.k \in {"Break", "Continue"} -> st

\* the types of the expressions es in order, after the types tys, with the
\* checker state threaded through
InferAll(es, tys0, st) ==
    IF es = <<>> THEN [tys |-> tys0, vars |-> st.vars, errors |-> st.errors]
    ELSE LET e == infer_expr(Head(es), st)
         IN InferAll(Tail(es), Append(tys0, e.ty), StateOf(e))

\* the loop of the arms Expr::List and Expr::Map: t is <<>> for None or
\* <<type>> for the unified type so far
InferUnified(es, t, st) ==
    IF es = <<>> THEN Inferred(IF t = <<>> THEN TAny ELSE t[1], st)
    ELSE LET e == infer_expr(Head(es), st)
         IN InferUnified(Tail(es),
                         <<IF t = <<>> THEN e.ty ELSE unify(t[1], e.ty)>>,
                         StateOf(e))

\* the loop over params.iter().zip(arg_ts) of the arm Expr::Call, from i
CheckArgs(params, arg_ts, i, st) ==
    IF i > Len(params) THEN st
    ELSE CheckArgs(params, arg_ts, i + 1,
             IF ~is_compatible(arg_ts[i], params[i])
             THEN PushError(st, <<"Argument ", ToString(i), " type ",
                                  Display(arg_ts[i]),
                                  " incompatible with parameter type ",
                                  Display(params[i])>>, "")
             ELSE st)

\* infer_expr
infer_expr(expr, st) ==
    CASE expr.k = "Literal" ->
             Inferred([t |-> expr.lit.tag], st)
      [] expr.k = "Var" ->
             Inferred(IF expr.name \in DOMAIN st.vars THEN st.vars[expr.name]
                      ELSE TAny, st)
      [] expr.k = "Assign" ->
             LET v == infer_expr(expr.value, st)
                 s1 == IF expr.name \in DOMAIN v.vars
                          /\ ~is_compatible(v.ty, v.vars[expr.name])
                       THEN PushError(StateOf(v),
                                <<"Cannot assign ", Display(v.ty),
                                  " to variable '", expr.name, "' of type ",
                                  Display(v.vars[expr.name])>>, expr.name)
                       ELSE StateOf(v)
             IN Inferred(v.ty, [s1 EXCEPT !.vars = Insert(@, expr.name, v.ty)])
      [] expr.k = "Binary" ->
             LET l == infer_expr(expr.left, st)
                 r == infer_expr(expr.right, StateOf(l))
             IN InferBinary(expr.op, l.ty, r.ty, StateOf(r))
      [] expr.k = "Unary" ->
             LET e == infer_expr(expr.e, st)
                 want == IF expr.op = "Neg" THEN TNumber ELSE TBool
             IN IF e.ty = want THEN Inferred(want, StateOf(e))
                ELSE Inferred(TAny,
                         PushError(StateOf(e),
                             <<IF expr.op = "Neg" THEN "Unary - expects number"
                               ELSE "Unary ! expects bool",
                               ", got ", Display(e.ty)>>, ""))
      [] expr.k = "Call" ->
             LET c == infer_expr(expr.callee, st)
                 a == InferAll(expr.args, <<>>, StateOf(c))
             IN IF c.ty.t # "Func" THEN Inferred(TAny, StateOf(a))
                ELSE IF Len(c.ty.args) # Len(a.tys)
                     THEN Inferred(c.ty.ret,
                              PushError(StateOf(a),
                                  <<"Function expects ", ToString(Len(c.ty.args)),
                                    " args, got ", ToString(Len(a.tys))>>, ""))
                ELSE Inferred(c.ty.ret, CheckArgs(c.ty.args, a.tys, 1, StateOf(a)))
      [] expr.k = "Fn" ->
             LET PT(i) == IF expr.params[i].ty = NoType THEN TAny
                          ELSE from_expr(expr.params[i].ty)
                 RECURSIVE Child(_, _)
                 Child(i, vs) ==
                     IF i > Len(expr.params) THEN vs
                     ELSE Child(i + 1, Insert(vs, expr.params[i].name, PT(i)))
                 ret_t == IF expr.ret = NoType THEN TAny ELSE from_expr(expr.ret)
                 body == CheckStmts(expr.body,
                                    [vars |-> Child(1, st.vars),
                                     errors |-> st.errors], ret_t)
             IN Inferred(TFunc([i \in 1..Len(expr.params) |-> PT(i)], ret_t),
                         [vars |-> st.vars, errors |-> body.errors])
      [] expr.k = "List" ->
             LET r == InferUnified(expr.items, <<>>, st)
             IN Inferred(TList(r.ty), StateOf(r))
      [] expr.k = "Map" ->
             LET r == InferUnified([i \in 1..Len(expr.props) |-> expr.props[i][2]],
                                   <<>>, st)
             IN Inferred(TMap(r.ty), StateOf(r))
      [] expr.k = "Index" ->
             LET tt == infer_expr(expr.target, st)
                 it == infer_expr(expr.index, StateOf(tt))
             IN IF (tt.ty.t = "List" /\ it.ty = TNumber)
                   \/ (tt.ty.t = "Map" /\ it.ty = TString)
                THEN Inferred(tt.ty.of, StateOf(it))
                ELSE Inferred(TAny,
                         PushError(StateOf(it),
                             <<"Invalid index types", ": target ",
                               Display(tt.ty), " indexed by ", Display(it.ty)>>,
                             ""))
      [] expr.k = "Field" ->
             Inferred(TAny, StateOf(infer_expr(expr.target, st)))

\* check_program: the TypeCheckResult, errors and env (vars)
check_program(p) ==
    CheckStmts(p.statements, [vars |-> prelude, errors |-> <<>>], NoType)

\* ------------------------------------------------------------------------
\* Front end: the state machine that lexes a source text, parses the tokens
\* and type-checks the program.
\* ------------------------------------------------------------------------
\* the words the source texts of the model are written with, as characters
Chars ==
    ("let" :> <<"l", "e", "t">>)
    @@ ("fn" :> <<"f", "n">>)
    @@ ("a" :> <<"a">>)
    @@ ("b" :> <<"b">>)
    @@ ("f" :> <<"f">>)
    @@ ("q" :> <<"q">>)
    @@ ("id" :> <<"i", "d">>)
    @@ ("state" :> <<"s", "t", "a", "t", "e">>)
    @@ ("any" :> <<"a", "n", "y">>)
    @@ ("true" :> <<"t", "r", "u", "e">>)
    @@ ("null" :> <<"n", "u", "l", "l">>)
    @@ ("1" :> <<"1">>)
    @@ ("2" :> <<"2">>)
    @@ ("3" :> <<"3">>)
    @@ ("x" :> <<"x">>)
    @@ ("number" :> <<"n", "u", "m", "b", "e", "r">>)
    @@ ("\"x\"" :> <<"\"", "x", "\"">>)
    @@ ("\"started\"" :> <<"\"", "s", "t", "a", "r", "t", "e", "d", "\"">>)
    @@ (":" :> <<":">>)
    @@ ("=" :> <<"=">>)
    @@ (";" :> <<";">>)
    @@ ("{" :> <<"{">>)
    @@ ("}" :> <<"}">>)
    @@ ("(" :> <<"(">>)
    @@ ("[" :> <<"[">>)
    @@ ("]" :> <<"]">>)
    @@ (")" :> <<")">>)
    @@ ("." :> <<".">>)
    @@ ("," :> <<",">>)
    @@ ("+" :> <<"+">>)
    @@ ("-" :> <<"-">>)
    @@ ("*" :> <<"*">>)
    @@ ("/" :> <<"/">>)
    @@ ("%" :> <<"%">>)
    @@ ("<" :> <<"<">>)
    @@ ("<=" :> <<"<", "=">>)
    @@ (">" :> <<">">>)
    @@ (">=" :> <<">", "=">>)
    @@ ("==" :> <<"=", "=">>)
    @@ ("!=" :> <<"!", "=">>)
    @@ ("&&" :> <<"&", "&">>)
    @@ ("||" :> <<"|", "|">>)

\* the words ws as one line of source text, a space between two words
RECURSIVE Text(_)
Text(ws) ==
    IF ws = <<>> THEN <<>>
    ELSE IF Len(ws) = 1 THEN Chars[ws[1]]
    ELSE Chars[ws[1]] \o <<" ">> \o Text(Tail(ws))

\* all sequences over S of length at most n
SeqsUpTo(S, n) == UNION { [1..k -> S] : k \in 0..n }

\* the words that follow a `let NAME` or a `{` in the model's texts
TailWords == {"a", ":", "=", "1", ";", "{", "}", "\"x\"", "any", ","}
Tails == SeqsUpTo(TailWords, MaxTail)

\* `let a` at the start of a program, after a statement and in a block
LetTexts ==
    { pre \o <<"let", "a">> \o tl \o post :
        pre \in {<<>>, <<"1", ";">>, <<"{">>, <<"fn", "f", "(", ")", "{">>},
        tl \in Tails, post \in {<<>>, <<"1", ";">>} }

\* `{` at the start of a statement
BraceTexts ==
    { pre \o <<"{">> \o tl \o post :
        pre \in {<<>>, <<"a", ";">>},
        tl \in Tails,
        post \in {<<>>, <<"}">>, <<"1", "}">>, <<"}", "}">>} }
    \cup { <<"fn", "f", "(", "q", ")", "{", "{", "id", ":", "q", ".", "id", ",",
             "state", ":", "\"started\"", "}", "}">>,
           <<"let", "f", "=", "fn", "(", "q", ")", "{", "{", "id", ":", "q",
             ".", "id", ",", "state", ":", "\"started\"", "}", "}", ";">> }

\* an assignment to each kind of target, with and without the semicolon
AssignTexts ==
    { lhs \o <<"=">> \o rhs \o end :
        lhs \in { <<"a">>, <<"1">>, <<"\"x\"">>, <<"a", ".", "b">>,
                  <<"f", "(", ")">>, <<"(", "a", ")">>, <<"a", "+", "b">> },
        rhs \in { <<"2">>, <<"b">>, <<"b", "=", "2">>, <<"1", "=", "2">>,
                  <<"b", "+", "1">>, <<"+">>, <<>> },
        end \in { <<>>, <<";">>, <<";", "b">> } }

\* a binary operation on two literals, as a statement and as an initialiser
OperandWords == {"1", "\"x\"", "true", "null"}
OperatorWords ==
    {"+", "-", "*", "/", "%", "<", "<=", ">", ">=", "==", "!=", "&&", "||"}
BinaryTexts ==
    { pre \o <<l, op, r, ";">> :
        pre \in { <<>>, <<"let", "a", "=">>, <<"let", "a", ":", "any", "=">> },
        l \in OperandWords, op \in OperatorWords, r \in OperandWords }

\* fragments of texts that put tokens on several lines and after comments
LexPieces ==
    { <<"a">>, <<"=">>, <<" ">>, <<NL>>, <<"/", "/", "c">>,
      <<"/", "*", "c", "*", "/">>, <<"/", "*", NL, "*", "/">> }
LexTexts == { Flatten(ps) : ps \in SeqsUpTo(LexPieces, MaxLexPieces) }

\* a block that declares a, alone and nested, before a use of a, and after
\* a declaration of a or of b
LetAInBlock == <<"{", "let", "a", ":", "any", "=", "1", ";", "}">>
BlockLetTexts ==
    { pre \o blk \o post :
        pre \in { <<>>, <<"let", "a", ":", "number", "=", "2", ";">>,
                  <<"let", "b", ":", "number", "=", "2", ";">> },
        blk \in { LetAInBlock, <<"{">> \o LetAInBlock \o <<"}">>,
                  <<"{", "let", "a", ":", "any", "=", "1", ";", "a", "=", "2",
                    ";", "}">> },
        post \in { <<>>, <<"a", ";">>, <<"let", "b", ":", "any", "=", "a", ";">> } }

\* the words ws with a comma between two of them
RECURSIVE CommaList(_)
CommaList(ws) ==
    IF Len(ws) <= 1 THEN ws ELSE <<Head(ws), ",">> \o CommaList(Tail(ws))

\* the words ws as the values of a map literal: `id : w1 , state : w2 , ..`
MapKeyWords == <<"id", "state", "q", "b", "f", "x">>
RECURSIVE PropList(_, _)
PropList(ws, k) ==
    IF ws = <<>> THEN <<>>
    ELSE <<MapKeyWords[k], ":", Head(ws)>>
             \o (IF Len(ws) = 1 THEN <<>> ELSE <<",">>)
             \o PropList(Tail(ws), k + 1)

\* a list literal and a map literal of up to MaxItems literals, assigned to a
AggregateTexts ==
    { <<"a", "=", "[">> \o CommaList(ws) \o <<"]", ";">> :
        ws \in SeqsUpTo(OperandWords, MaxItems) }
    \cup { <<"a", "=", "{">> \o PropList(ws, 1) \o <<"}", ";">> :
              ws \in SeqsUpTo(OperandWords, MaxItems) }

FrontSources ==
    { Text(ws) : ws \in LetTexts \cup BraceTexts \cup AssignTexts \cup BinaryTexts
                        \cup BlockLetTexts \cup AggregateTexts }
        \cup LexTexts

\* programs handed to check_program as values: an unannotated Let (which
\* the parser builds for fn declarations only) of a binary operation
LiteralOf ==
    ("1" :> [tag |-> "Number", text |-> "1"])
    @@ ("\"x\"" :> [tag |-> "String", text |-> "x"])
    @@ ("true" :> [tag |-> "Bool", text |-> "true"])
    @@ ("null" :> [tag |-> "Null", text |-> ""])
BinOps ==
    {"Add", "Sub", "Mul", "Div", "Mod", "Eq", "Ne", "Lt", "Le", "Gt", "Ge",
     "And", "Or"}
BuiltPrograms ==
    { [tag |-> "Ok",
       statements |->
           <<[k |-> "Let", name |-> "a", ty |-> [t |-> "None"],
              init |-> Binary([k |-> "Literal", lit |-> LiteralOf[l]], op,
                              [k |-> "Literal", lit |-> LiteralOf[r]])]>>] :
        l \in OperandWords, op \in BinOps, r \in OperandWords }

\* either a source text is about to be lexed, or a program built as a value
\* is about to be checked
InitFront ==
    /\ \/ /\ source \in FrontSources
          /\ ast = [tag |-> "none"]
          /\ fe = "text"
       \/ /\ source = <<>>
          /\ ast \in BuiltPrograms
          /\ fe = "parsed"
    /\ tokens = <<>>
    /\ terrs = <<>>
    /\ tenv = NoVars
    /\ InitInterp
    /\ FormatterOff
    /\ TypesOff
    /\ HostNew

\* Parser::new(src): Lexer::new(src).lex()
ParserNew ==
    /\ fe = "text"
    /\ tokens' = lex(source)
    /\ fe' = "lexed"
    /\ UNCHANGED <<source, ast, terrs, tenv>>
    /\ UNCHANGED <<fvars, ivars, tvars, hvars>>

\* Parser::parse_program on the tokens
ParseProgram ==
    /\ fe = "lexed"
    /\ ast' = parse_program(tokens)
    /\ fe' = "parsed"
    /\ UNCHANGED <<source, tokens, terrs, tenv>>
    /\ UNCHANGED <<fvars, ivars, tvars, hvars>>

\* typecheck::check_program on the parsed program
CheckProgram ==
    /\ fe = "parsed"
    /\ ast.tag = "Ok"
    /\ terrs' = check_program(ast).errors
    /\ tenv' = check_program(ast).vars
    /\ fe' = "checked"
    /\ UNCHANGED <<source, tokens, ast>>
    /\ UNCHANGED <<fvars, ivars, tvars, hvars>>

NextFront == ParserNew \/ ParseProgram \/ CheckProgram

SpecFront == InitFront /\ [][NextFront]_vars

\* ------------------------------------------------------------------------
\* Running a source text: Parser::new(src).parse_program(), then
\* Interpreter::eval(program), as the tests hello_runs and run() do
\* ------------------------------------------------------------------------
\* s.parse() of a Number token: the number whose decimal notation the text is
take_number(text) == CHOOSE n \in 0..MaxNumber : ToString(n) = text

\* the Value of a literal token
LitValue(lit) ==
    CASE lit.tag = "Number" -> NumV(take_number(lit.text))
      [] lit.tag = "Bool" -> BoolV(lit.text = "true")
      [] lit.tag = "String" -> StrV(lit.text)
      [] lit.tag = "Null" -> NullV

\* the parsed Stmt and Expr as exec_stmt and eval_expr match on them: the
\* type annotations are not looked at, a literal stands for its Value
RECURSIVE RunStmt(_), RunExpr(_)
RunStmts(ss) == [i \in 1..Len(ss) |-> RunStmt(ss[i])]
RunExprs(es) == [i \in 1..Len(es) |-> RunExpr(es[i])]

RunStmt(s) ==
    CASE s.k = "Let" -> Let(s.name, RunExpr(s.init))
      [] s.k = "Expr" -> ExprS(RunExpr(s.e))
      [] s.k = "Block" -> Block(RunStmts(s.body))
      [] s.k = "If" ->
             If(RunExpr(s.cond), RunStmt(s.then_branch),
                IF s.else_branch = NoStmt THEN NoStmt
                ELSE RunStmt(s.else_branch))
      [] s.k = "While" -> While(RunExpr(s.cond), RunStmt(s.body))
      [] s.k = "For" -> For(s.name, RunExpr(s.iter), RunStmt(s.body))
      [] s.k = "Return" ->
             Return(IF s.e = NoExpr THEN NoExpr ELSE RunExpr(s.e))
      [] OTHER -> s

RunExpr(e) ==
    CASE e.k = "Literal" -> Lit(LitValue(e.lit))
      [] e.k = "Assign" -> Assign(e.name, RunExpr(e.value))
      [] e.k = "Binary" -> Binary(RunExpr(e.left), e.op, RunExpr(e.right))
      [] e.k = "Call" -> Call(RunExpr(e.callee), RunExprs(e.args))
      [] e.k = "Fn" ->
             Fn([i \in 1..Len(e.params) |-> e.params[i].name],
                RunStmts(e.body))
      [] e.k = "List" -> List(RunExprs(e.items))
      [] OTHER -> e

\* let x: number = A op B op C; x;
ArithWords == {"1", "2", "3"}
ArithOps == {"+", "-", "*"}
RunWords(a, o1, b, o2, c) ==
    <<"let", "x", ":", "number", "=", a, o1, b, o2, c, ";", "x", ";">>
RunSources ==
    { Text(RunWords(a, o1, b, o2, c)) :
        a \in ArithWords, o1 \in ArithOps, b \in ArithWords, o2 \in ArithOps,
        c \in ArithWords }

InitRun ==
    /\ source \in RunSources
    /\ tokens = <<>>
    /\ ast = [tag |-> "none"]
    /\ terrs = <<>>
    /\ tenv = NoVars
    /\ fe = "text"
    /\ InitInterp
    /\ FormatterOff
    /\ TypesOff
    /\ HostNew

\* interp.eval(program) on the program that parse_program returned
EvalParsed ==
    /\ fe = "parsed"
    /\ ast.tag = "Ok"
    /\ ctl.m = "idle"
    /\ fe' = "run"
    /\ prog' = Program("parsed", <<>>, 0, 0, RunStmts(ast.statements))
    /\ evals' = evals + 1
    /\ result' = NoResult
    /\ stack' = <<[K("eval") EXCEPT !.rest = prog'.stmts, !.r = OkNone]>>
    /\ ctl' = C("loop")
    /\ UNCHANGED <<frames, env, nat>>
    /\ UNCHANGED <<source, tokens, ast, terrs, tenv>>
    /\ UNCHANGED <<fvars, tvars, hvars>>

NextRun ==
    \/ ParserNew
    \/ ParseProgram
    \/ EvalParsed
    \/ EvalLoop
    \/ EvalStmtDone
    \/ ExecLet
    \/ LetDone
    \/ ExecExpr
    \/ ExprDone
    \/ EvalLiteral
    \/ EvalVar
    \/ EvalBinary
    \/ BinaryLeft
    \/ BinaryRight

SpecRun == InitRun /\ [][NextRun]_vars

\* ------------------------------------------------------------------------
\* Properties of a run
\* ------------------------------------------------------------------------
\* eval has returned on the parsed program
Ran == fe = "run" /\ ctl.m = "idle"

WordNumber == ("1" :> 1) @@ ("2" :> 2) @@ ("3" :> 3)
Arith(a, op, b) ==
    CASE op = "+" -> a + b
      [] op = "-" -> a - b
      [] op = "*" -> a * b
\* A op B op C by the rules of arithmetic: * binds tighter than + and -,
\* operators of one level group from the left
ArithValue(a, o1, b, o2, c) ==
    IF o2 = "*" /\ o1 # "*"
    THEN Arith(WordNumber[a], o1, Arith(WordNumber[b], o2, WordNumber[c]))
    ELSE Arith(Arith(WordNumber[a], o1, WordNumber[b]), o2, WordNumber[c])

HelloText == Text(RunWords("1", "+", "2", "*", "3"))

\* C21 as stated: evaluating `let x: number = 1 + 2 * 3; x;` succeeds with the
\* final value 6
C21_FinalValueSix ==
    (Ran /\ source = HelloText) => result = OkSome(NumV(6))

\* C21, amended: evaluating `let x: number = 1 + 2 * 3; x;` succeeds with the
\* final value 7, and every `let x: number = A op B op C; x;` over + - *
\* succeeds with the value that A op B op C has in arithmetic
C21_FinalValueSeven ==
    Ran =>
        /\ source = HelloText => result = OkSome(NumV(7))
        /\ \A a \in ArithWords, o1 \in ArithOps, b \in ArithWords,
              o2 \in ArithOps, c \in ArithWords :
              source = Text(RunWords(a, o1, b, o2, c)) =>
                  result = OkSome(NumV(ArithValue(a, o1, b, o2, c)))

C21_Witness ==
    Ran /\ source = HelloText /\ result = OkSome(NumV(7)) /\ evals = 1

\* ------------------------------------------------------------------------
\* Properties of the parser
\* ------------------------------------------------------------------------
\* parse_program has returned
Parsed == fe \in {"parsed", "checked"}

\* the tokens before position p are a program of their own, so that
\* parse_program calls declaration at p
TopLevel(t, p) == parse_program(SubSeq(t, 1, p - 1)).tag = "Ok"

\* `let NAME` at p, and no colon after it
LetWithoutColon(t, p) ==
    check(t, p, "Let") /\ check(t, p + 1, "Identifier") /\ ~check(t, p + 2, "Colon")

\* the ParseError whose message is "expected <expected> at line .., col .."
\* for the token at p; no other ParseError has a message containing
\* "expected <expected>"
Expected(t, p, expected) ==
    [tag |-> "Expected", expected |-> expected,
     line |-> t[p].line, col |-> t[p].col]

RECURSIVE Leftmost(_)
Leftmost(e) ==
    CASE e.k = "Call" -> Leftmost(e.callee)
      [] e.k \in {"Index", "Field"} -> Leftmost(e.target)
      [] e.k = "Binary" -> Leftmost(e.left)
      [] OTHER -> e

\* the two tokens after the one at p are an identifier and a colon
IdentColonFollow(t, p) ==
    /\ p + 2 <= Len(t)
    /\ t[p + 1].kind = "Identifier"
    /\ t[p + 2].kind = "Colon"

\* fn f(q) { { id: q.id, state: "started" } }
MapInFnText ==
    Text(<<"fn", "f", "(", "q", ")", "{", "{", "id", ":", "q", ".", "id", ",",
           "state", ":", "\"started\"", "}", "}">>)

\* C14: a statement that starts with `{` and parses is an expression
\* statement starting with a map literal when the next two tokens are an
\* identifier and `:`, and a block otherwise; at the start of a program that
\* statement is the program's first. `{ }` parses to an empty block and
\* `{ NAME }` to a block holding the expression statement NAME. The text
\* fn f(q) { { id: q.id, state: "started" } } parses to one statement, a Let
\* of f to a function whose body is one map-literal expression statement.
C14_BlockOrMapLiteral ==
    Parsed =>
        /\ \A p \in 1..Len(tokens) :
              check(tokens, p, "LeftBrace") =>
                  LET st == statement(tokens, p)
                      IsMapStmt(n) == n.k = "Expr" /\ Leftmost(n.e).k = "Map"
                  IN /\ st.ok =>
                          IF IdentColonFollow(tokens, p)
                          THEN IsMapStmt(st.node) ELSE st.node.k = "Block"
                     /\ (p = 1 /\ ast.tag = "Ok") =>
                          ast.statements[1] = st.node
                     /\ check(tokens, p + 1, "RightBrace") =>
                          st.ok /\ st.node = Block(<<>>)
                     /\ (check(tokens, p + 1, "Identifier")
                           /\ check(tokens, p + 2, "RightBrace")) =>
                          /\ st.ok
                          /\ st.node = Block(<<ExprS(Var(tokens[p + 1].text))>>)
        /\ source = MapInFnText =>
              /\ ast.tag = "Ok"
              /\ Len(ast.statements) = 1
              /\ ast.statements[1].k = "Let"
              /\ ast.statements[1].name = "f"
              /\ ast.statements[1].init.k = "Fn"
              /\ Len(ast.statements[1].init.body) = 1
              /\ ast.statements[1].init.body[1].k = "Expr"
              /\ ast.statements[1].init.body[1].e.k = "Map"
              /\ [i \in 1..2 |-> ast.statements[1].init.body[1].e.props[i][1]]
                     = <<"id", "state">>

\* C14 witness: a program that starts with `{ a : 1 }` has been parsed to a
\* map-literal expression statement
C14_Witness ==
    /\ Parsed
    /\ IdentColonFollow(tokens, 1)
    /\ check(tokens, 1, "LeftBrace")
    /\ ast.tag = "Ok"
    /\ ast.statements[1].k = "Expr"
    /\ ast.statements[1].e.k = "Map"

\* C15 as stated: a statement made of an expression that is not a variable,
\* `=`, and a value expression, with or without a semicolon after it, fails
\* with ParseError::Expected "assignable expression"; a = b = e parses as
\* a = (b = e).
C15_AssignableTargets ==
    Parsed =>
        LET target == binary(tokens, 1, 1)
            value == binary(tokens, target.pos + 1, 1)
        IN /\ ( /\ target.ok
                /\ target.node.k # "Var"
                /\ check(tokens, target.pos, "Assign")
                /\ value.ok
                /\ \/ value.pos > Len(tokens)
                   \/ check(tokens, value.pos, "Semicolon") ) =>
                    /\ ast.tag = "Err"
                    /\ ast.err.tag = "Expected"
                    /\ ast.err.expected = "assignable expression"
           /\ ( /\ Len(tokens) >= 5
                /\ [i \in 1..4 |-> tokens[i].kind]
                       = <<"Identifier", "Assign", "Identifier", "Assign">>
                /\ ast.tag = "Ok" ) =>
                    /\ ast.statements[1].k = "Expr"
                    /\ ast.statements[1].e.k = "Assign"
                    /\ ast.statements[1].e.name = tokens[1].text
                    /\ ast.statements[1].e.value.k = "Assign"
                    /\ ast.statements[1].e.value.name = tokens[3].text

\* ------------------------------------------------------------------------
\* Properties of the lexer
\* ------------------------------------------------------------------------
\* lex has returned
Lexed == fe \in {"lexed", "parsed", "checked"}

\* the 1-based line and column of the character s[i]
LineOf(s, i) == 1 + Cardinality({j \in 1..(i - 1) : s[j] = NL})
ColOf(s, i) ==
    LET before == {j \in 1..(i - 1) : s[j] = NL}
    IN IF before = {} THEN i
       ELSE i - (CHOOSE j \in before : \A n \in before : n <= j)

\* C16 as stated: every token carries the 1-based line and column of its
\* first character in the source text.
C16_TokenPositions ==
    Lexed =>
        \A k \in 1..Len(tokens) :
            /\ tokens[k].line = LineOf(source, Spans(source)[k])
            /\ tokens[k].col = ColOf(source, Spans(source)[k])

\* ------------------------------------------------------------------------
\* Properties of the type checker
\* ------------------------------------------------------------------------
\* check_program has returned
Checked == fe = "checked"

\* the message of the error holds the phrase
Mentions(err, phrase) == \E i \in DOMAIN err.message : err.message[i] = phrase

\* the program is one statement, an expression statement or a Let (without
\* annotation, or annotated any) of a binary operation on two literals
OneBinary ==
    /\ ast.tag = "Ok"
    /\ Len(ast.statements) = 1
    /\ LET st == ast.statements[1]
           IsOp(e) == /\ e.k = "Binary"
                      /\ e.left.k = "Literal"
                      /\ e.right.k = "Literal"
       IN \/ st.k = "Expr" /\ IsOp(st.e)
          \/ /\ st.k = "Let"
             /\ st.ty \in {NoType, TypeName("Any")}
             /\ IsOp(st.init)
TheBinary ==
    IF ast.statements[1].k = "Expr" THEN ast.statements[1].e
    ELSE ast.statements[1].init

\* the operand types the operator asks for
OperandsAsRequired(op, l, r) ==
    CASE op = "Add" -> (l = "Number" /\ r = "Number") \/ (l = "String" /\ r = "String")
      [] op \in {"Sub", "Mul", "Div", "Mod", "Lt", "Le", "Gt", "Ge"} ->
             l = "Number" /\ r = "Number"
      [] op \in {"And", "Or"} -> l = "Bool" /\ r = "Bool"
      [] op \in {"Eq", "Ne"} -> TRUE

\* let a = "x" - 1;
StringMinusNumber ==
    [tag |-> "Ok",
     statements |->
         <<[k |-> "Let", name |-> "a", ty |-> NoType,
            init |-> Binary([k |-> "Literal", lit |-> LiteralOf["\"x\""]], "Sub",
                            [k |-> "Literal", lit |-> LiteralOf["1"]])]>>]

C19_MixedOperandsAccepted ==
    (Checked /\ OneBinary) =>
        LET b == TheBinary
        IN ( /\ b.op \in {"Add", "Lt", "Le", "Gt", "Ge", "And", "Or"}
             /\ b.left.lit.tag # b.right.lit.tag ) => terrs = <<>>

\* the names that the top-level statements of the checked program declare
TopLevelLets ==
    { ast.statements[i].name :
        i \in { j \in 1..Len(ast.statements) : ast.statements[j].k = "Let" } }

\* the names that a `let` directly inside a top-level block declares
BlockLets ==
    UNION { { b[i].name : i \in { j \in 1..Len(b) : b[j].k = "Let" } } :
              b \in { ast.statements[i].body :
                        i \in { j \in 1..Len(ast.statements) :
                                  ast.statements[j].k = "Block" } } }

TopLevelAssigned ==
    { ast.statements[i].e.name :
        i \in { j \in 1..Len(ast.statements) :
                  /\ ast.statements[j].k = "Expr"
                  /\ ast.statements[j].e.k = "Assign" } }

\* the checked program without its top-level block statements
WithoutBlocks ==
    [ast EXCEPT !.statements = SelectSeq(@, LAMBDA st : st.k # "Block")]

AggregateAssigned ==
    /\ Checked
    /\ Len(ast.statements) = 1
    /\ ast.statements[1].k = "Expr"
    /\ ast.statements[1].e.k = "Assign"
    /\ ast.statements[1].e.name = "a"
    /\ ast.statements[1].e.value.k \in {"List", "Map"}

\* the element expressions of the literal, and the type inferred for each
Elements ==
    LET v == ast.statements[1].e.value
    IN IF v.k = "List" THEN v.items
       ELSE [i \in 1..Len(v.props) |-> v.props[i][2]]
ElementTypes ==
    [i \in 1..Len(Elements) |->
        infer_expr(Elements[i], [vars |-> prelude, errors |-> <<>>]).ty]

\* the element type that the checker recorded for a
ElementType == tenv["a"].of

\* unify folded over the types ts from the left, Any for no type
RECURSIVE UnifyAll(_)
UnifyAll(ts) ==
    IF ts = <<>> THEN TAny
    ELSE IF Len(ts) = 1 THEN ts[1]
    ELSE unify(UnifyAll(SubSeq(ts, 1, Len(ts) - 1)), ts[Len(ts)])

\* C30: aggregate element inference - the element type inferred for a list
\* or map literal is one that the type of each element is compatible with,
\* it is the same for every order of the elements, and it is Any for a
\* literal that mixes number, string and bool elements
C30_ElementTypeCoversElements ==
    AggregateAssigned =>
        /\ \A i \in 1..Len(Elements) :
              is_compatible(ElementTypes[i], ElementType)
        /\ \A f \in Permutations(1..Len(Elements)) :
              UnifyAll([i \in 1..Len(Elements) |-> ElementTypes[f[i]]])
                  = ElementType
        /\ {TNumber, TString, TBool}
              \subseteq { ElementTypes[i] : i \in 1..Len(Elements) }
                  => ElementType = TAny

\* ------------------------------------------------------------------------
\* Type checker: the state machine that answers one is_compatible question
\* ------------------------------------------------------------------------
\* a question is_compatible(a, b) is pending
InitTypes ==
    /\ tys \in TypesUpTo(MaxTypeDepth) \X TypesUpTo(MaxTypeDepth)
    /\ compat = <<>>
    /\ InitInterp
    /\ FormatterOff
    /\ FrontOff
    /\ HostNew

\* the call is_compatible(a, b)
IsCompatible ==
    /\ tys # <<>>
    /\ compat = <<>>
    /\ compat' = <<is_compatible(tys[1], tys[2])>>
    /\ UNCHANGED tys
    /\ UNCHANGED <<fvars, ivars, pvars, hvars>>

NextTypes == IsCompatible

SpecTypes == InitTypes /\ [][NextTypes]_vars

\* C17: is_compatible(t, Any), is_compatible(Any, t), is_compatible(Null, t)
\* and is_compatible(t, t) hold for every type t, and
\* is_compatible(List(a), List(b)) = is_compatible(a, b), likewise for Map.
C17_CompatibilityLattice ==
    compat # <<>> =>
        LET a == tys[1]
            b == tys[2]
        IN /\ (b = TAny \/ a = TAny \/ a = TNull \/ a = b) => compat[1]
           /\ (a.t = "List" /\ b.t = "List") =>
                  compat[1] = is_compatible(a.of, b.of)
           /\ (a.t = "Map" /\ b.t = "Map") =>
                  compat[1] = is_compatible(a.of, b.of)
           /\ (a.t = "List" /\ b.t = "List" /\ a.of.t \in {"Number", "String", "Bool"}
                 /\ b.of.t \in {"Number", "String", "Bool"}) =>
                  compat[1] = (a.of = b.of)

\* C17 witness: null was found compatible with a type that is neither null
\* nor any, inside two lists
C17_Witness ==
    /\ compat = <<TRUE>>
    /\ tys[1] = TList(TList(TNull))
    /\ tys[2] = TList(TList(TNumber))

\* ------------------------------------------------------------------------
\* Host (host.rs): the event bus
\* ------------------------------------------------------------------------
\* Host::on(name, func): the registry with func pushed on the list of name
on(ev, name, func) ==
    (name :> Append(IF name \in DOMAIN ev THEN ev[name] ELSE <<>>, func)) @@ ev

\* the loop of Host::emit over list from i, with the invocations made so
\* far: a Function::User is passed over, a Function::Native is called with
\* vec![data] and its error returned at once
RECURSIVE EmitLoop(_, _, _, _)
EmitLoop(list, data, i, made) ==
    IF i > Len(list) THEN [result |-> OkVal(NullV), calls |-> made]
    ELSE IF list[i].f = "User" THEN EmitLoop(list, data, i + 1, made)
    ELSE LET r == NativeResult(list[i].name, <<data>>)
             now == Append(made, [handler |-> list[i], args |-> <<data>>])
         IN IF r.tag = "Err" THEN [result |-> r, calls |-> now]
            ELSE EmitLoop(list, data, i + 1, now)

\* Host::emit(name, data, env)
emit(ev, name, data) ==
    IF name \in DOMAIN ev THEN EmitLoop(ev[name], data, 1, <<>>)
    ELSE [result |-> OkVal(NullV), calls |-> <<>>]

\* the event names, handlers and data of the model: print always succeeds,
\* push fails on a single argument, host fails unless its argument is a
\* string; fn(d) {} is a function of the script
EventNames == {"a", "b"}
Handlers ==
    {NativeFn("print"), NativeFn("push"), NativeFn("host"),
     UserFn(<<"d">>, <<>>, GlobalFrame)}
EventData == {NumV(1), StrV("s")}

\* the number of handlers registered under all names
RECURSIVE Registered(_)
Registered(ev) ==
    IF DOMAIN ev = {} THEN 0
    ELSE LET n == CHOOSE n \in DOMAIN ev : TRUE
         IN Len(ev[n]) + Registered([m \in DOMAIN ev \ {n} |-> ev[m]])

\* a call host.on(name, func)
HostOn(name, func) ==
    /\ Registered(events) < MaxHandlers
    /\ events' = on(events, name, func)
    /\ UNCHANGED <<calls, emitted>>
    /\ UNCHANGED <<fvars, ivars, pvars, tvars>>

\* a call host.emit(name, data, env)
HostEmit(name, data) ==
    /\ calls' = emit(events, name, data).calls
    /\ emitted' = <<[name |-> name, data |-> data,
                     result |-> emit(events, name, data).result]>>
    /\ UNCHANGED events
    /\ UNCHANGED <<fvars, ivars, pvars, tvars>>

InitHost == InitInterp /\ FormatterOff /\ FrontOff /\ TypesOff /\ HostNew

NextHost ==
    \/ \E name \in EventNames, func \in Handlers : HostOn(name, func)
    \/ \E name \in EventNames, data \in EventData : HostEmit(name, data)

SpecHost == InitHost /\ [][NextHost]_vars

\* the result of calling handler f on the single argument data: a native
\* function by its code, the script function fn(d) {} returns null
HandlerResult(f, data) ==
    IF f.f = "Native" THEN NativeResult(f.name, <<data>>) ELSE OkVal(NullV)

\* the number of handlers an emit reaches: up to the first that fails
Reached(list, data) ==
    LET failing == {i \in 1..Len(list) : HandlerResult(list[i], data).tag = "Err"}
    IN IF failing = {} THEN Len(list)
       ELSE CHOOSE i \in failing : \A j \in failing : i <= j

\* C20 as stated: emit(name, data) invokes every handler registered for
\* name, in registration order, each with data as its single argument, up to
\* and including the first that fails; it returns that handler's error, or
\* Null when none fails or none is registered.
C20_EmitInvokesHandlers ==
    [][\A name \in EventNames, data \in EventData :
          HostEmit(name, data) =>
              LET list == IF name \in DOMAIN events THEN events[name] ELSE <<>>
                  n == Reached(list, data)
              IN /\ calls' = [i \in 1..n |->
                                 [handler |-> list[i], args |-> <<data>>]]
                 /\ emitted'[1].result =
                        IF n > 0 /\ HandlerResult(list[n], data).tag = "Err"
                        THEN HandlerResult(list[n], data)
                        ELSE OkVal(NullV)]_vars
====
